---- MODULE Spec2Model ----
(***************************************************************************)
(* A model of the fasthooks task execution engine                         *)
(* (src/src/runner/executor.rs, src/src/runner/mod.rs).                   *)
(*                                                                         *)
(* execute_hook resolves the hook's settings, orders the tasks with       *)
(* Kahn's algorithm, filters them by condition and runs them in one of    *)
(* three modes: sequential, independent-concurrent (execute_parallel) or  *)
(* dependency-aware concurrent (execute_with_dependencies).  The main      *)
(* loop and every spawned task are separate threads of control of a       *)
(* multi-threaded runtime; every access to shared state (the semaphore,    *)
(* the fail flag, the completed set, the result vector) is one step.      *)
(***************************************************************************)
EXTENDS Integers, Sequences, FiniteSets

(***************************************************************************)
(* Bounds of the model.                                                    *)
(***************************************************************************)
\* Largest total number of depends_on entries of a two-task hook.
MaxEdges == 1

\* Largest total number of depends_on entries of a three-task hook.
SortMaxEdges == 3

\* Largest value of settings.max_parallel that Init draws (0 = auto-detect).
MaxParallelSetting == 1

\* What std::thread::available_parallelism() answers on the modelled host.
NumCpus == 2

\* Largest number of patterns of a drawn glob specification.
MaxPatterns == 2

\* Largest number of candidate files of a drawn executor.
MaxFiles == 2

\* Largest number of evaluations of one condition in one state of the host.
MaxCalls == 2

\* Largest number of pieces of a drawn command template, and of drawn
\* invocation arguments.
MaxPieces == 2

MaxArgs == 2

\* Largest number of TaskResults statistics are derived from.
MaxResults == 2

\* The width given to u64, in bits (64 in the program).
WordBits == 3

\* Largest number of tasks of a hook of a validated configuration.
MaxConfigTasks == 2

\* Largest number of install_hook and uninstall_hook calls in a row.
MaxInstallerCalls == 3

\* Task names, in declaration order: of the hooks run in every mode, and of
\* the larger hooks run sequentially.
HookNames == <<"a", "b">>

SortNames == <<"a", "b", "c">>

\* A dependency name that is the name of no task.
UnknownDep == "zz"

(***************************************************************************)
(* Generic helpers.                                                        *)
(***************************************************************************)
SeqsUpTo(S, n) == UNION {[1..k -> S] : k \in 0..n}

Range(s) == {s[i] : i \in DOMAIN s}

Perms(S) == {f \in [1..Cardinality(S) -> S] : Range(f) = S}

\* An Option that is never looked at.
UnwrapOrDefault(opt, default) == default

\* Option<T> as a set: {} is None, {x} is Some(x).
UnwrapOr(opt, default) == IF opt = {} THEN default ELSE CHOOSE x \in opt : TRUE

\* The value of a Some.
Unwrap(opt) == CHOOSE x \in opt : TRUE

(***************************************************************************)
(* Strings.  A string is a sequence of one-character strings, so that      *)
(* prefixes, substrings and separators are what the code sees.            *)
(***************************************************************************)
\* char::is_whitespace, for the characters the drawn strings contain.
IsWhitespace(c) == c = " "

RECURSIVE TrimStart(_)
TrimStart(s) ==
    IF s # <<>> /\ IsWhitespace(Head(s)) THEN TrimStart(Tail(s)) ELSE s

RECURSIVE TrimEnd(_)
TrimEnd(s) ==
    IF s # <<>> /\ IsWhitespace(s[Len(s)])
    THEN TrimEnd(SubSeq(s, 1, Len(s) - 1))
    ELSE s

\* str::trim
Trim(s) == TrimEnd(TrimStart(s))

\* str::strip_prefix, as an Option.
StripPrefix(s, p) ==
    IF Len(s) >= Len(p) /\ SubSeq(s, 1, Len(p)) = p
    THEN {SubSeq(s, Len(p) + 1, Len(s))}
    ELSE {}

\* str::contains
Contains(s, p) ==
    \E i \in 0..(Len(s) - Len(p)) : SubSeq(s, i + 1, i + Len(p)) = p

RECURSIVE SplitFrom(_, _, _)
SplitFrom(s, seps, cur) ==
    IF s = <<>> THEN <<cur>>
    ELSE IF Head(s) \in seps
    THEN <<cur>> \o SplitFrom(Tail(s), seps, <<>>)
    ELSE SplitFrom(Tail(s), seps, Append(cur, Head(s)))

\* str::split on a set of separator characters: the pieces, empty ones
\* included.
Split(s, seps) == SplitFrom(s, seps, <<>>)

\* str::replace of one character by another.
Replace(s, from, to) == [i \in DOMAIN s |-> IF s[i] = from THEN to ELSE s[i]]

RECURSIVE ReplaceStr(_, _, _)
\* str::replace of a non-empty text by another: the occurrences are found
\* from the left, without overlap, and what is put in is not searched again.
ReplaceStr(s, from, to) ==
    IF s = <<>> THEN <<>>
    ELSE IF StripPrefix(s, from) # {}
    THEN to \o ReplaceStr(Unwrap(StripPrefix(s, from)), from, to)
    ELSE <<Head(s)>> \o ReplaceStr(Tail(s), from, to)

RECURSIVE Join(_, _)
\* [String]::join
Join(strs, sep) ==
    IF strs = <<>> THEN <<>>
    ELSE IF Len(strs) = 1 THEN strs[1]
    ELSE Head(strs) \o sep \o Join(Tail(strs), sep)

Digits == <<"0", "1", "2", "3", "4", "5", "6", "7", "8", "9">>

RECURSIVE ToString(_)
\* The decimal text of a usize, as format! writes it.
ToString(n) ==
    IF n < 10 THEN <<Digits[n + 1]>>
    ELSE ToString(n \div 10) \o <<Digits[(n % 10) + 1]>>

(***************************************************************************)
(* glob::Pattern, for patterns of literal characters, `?`, single `*` and  *)
(* an unclosed `[`.  Pattern::matches uses the default MatchOptions: `*`   *)
(* and `?` match the path separator too.                                   *)
(***************************************************************************)
\* Pattern::new, as an Option: a `[` that no `]` closes is an error (no
\* drawn pattern contains a `]`).
PatternNew(p) == IF \E i \in DOMAIN p : p[i] = "[" THEN {} ELSE {p}

RECURSIVE PatternMatches(_, _)
\* Pattern::matches
PatternMatches(p, s) ==
    IF p = <<>> THEN s = <<>>
    ELSE IF Head(p) = "*"
    THEN \E k \in 0..Len(s) : PatternMatches(Tail(p), SubSeq(s, k + 1, Len(s)))
    ELSE /\ s # <<>>
         /\ Head(p) = "?" \/ Head(p) = Head(s)
         /\ PatternMatches(Tail(p), Tail(s))

\* std::path::is_separator of the host: `/`, and `\` too on Windows.
IsSeparator(c, windows) == c = "/" \/ (windows /\ c = "\\")

RECURSIVE StripTrailingSeparators(_, _)
StripTrailingSeparators(s, windows) ==
    IF Len(s) > 1 /\ IsSeparator(s[Len(s)], windows)
    THEN StripTrailingSeparators(SubSeq(s, 1, Len(s) - 1), windows)
    ELSE s

\* f.file_name().and_then(|n| n.to_str()).unwrap_or(""): the last component
\* of the path; none for the root, for `..` and for the empty path.
FileName(path, windows) ==
    LET s    == StripTrailingSeparators(path, windows)
        cuts == {i \in DOMAIN s : IsSeparator(s[i], windows)}
        from == IF cuts = {} THEN 1
                ELSE (CHOOSE i \in cuts : \A j \in cuts : j <= i) + 1
        last == SubSeq(s, from, Len(s))
    IN  IF last = <<".", ".">> THEN <<>> ELSE last

(***************************************************************************)
(* Task lists.  A task carries the fields the engine reads: name,          *)
(* depends_on, allow_failure, and the Options condition and glob ({} is    *)
(* None, {s} is Some(s)).                                                  *)
(***************************************************************************)
\* The words of the condition grammar.
StrBranch == <<"b", "r", "a", "n", "c", "h">>

StrEnv == <<"e", "n", "v", ":">>

StrNotEnv == <<"!">> \o StrEnv

StrExists == <<"e", "x", "i", "s", "t", "s", ":">>

StrNotExists == <<"!">> \o StrExists

StrEq == <<"=", "=">>

StrNe == <<"!", "=">>

StrRe == <<"=", "~">>

\* The executor of the scheduling runs: one staged file `a.r`, on branch `m`.
HookExecutor ==
    [staged_files |-> << <<"a", ".", "r">> >>, current_branch |-> {<<"m">>},
     hook_args |-> <<>>]

\* The host of the scheduling runs: no environment variable of interest, no
\* path of interest, a Unix path syntax.
HookHost == [env |-> {}, env_raw |-> {}, paths |-> {}, windows |-> FALSE]

\* `branch == m`, true of HookExecutor, and `branch != m`, false of it.
CondHolds == StrBranch \o <<" ">> \o StrEq \o <<" ", "m">>

CondFails == StrBranch \o <<" ">> \o StrNe \o <<" ", "m">>

\* `*.r`, selecting the staged file of HookExecutor, and `*.m`, selecting none.
GlobMatch == <<"*", ".", "r">>

GlobNoMatch == <<"*", ".", "m">>

\* For a task that is condition-excluded or skipped the remaining fields
\* are never read, so one representative of each is drawn.
TaskProfiles ==
    { [allow_failure |-> FALSE, condition |-> {},          glob |-> {}],
      [allow_failure |-> TRUE,  condition |-> {},          glob |-> {}],
      [allow_failure |-> FALSE, condition |-> {CondHolds}, glob |-> {GlobMatch}],
      [allow_failure |-> FALSE, condition |-> {CondFails}, glob |-> {}],
      [allow_failure |-> FALSE, condition |-> {},          glob |-> {GlobNoMatch}] }

PlainProfile == [allow_failure |-> FALSE, condition |-> {}, glob |-> {}]

\* The depends_on list of task i, from a sequence of <<task index, name>>
\* declarations.
DepsOf(es, i) ==
    LET sel == SelectSeq(es, LAMBDA p : p[1] = i)
    IN  [k \in 1..Len(sel) |-> sel[k][2]]

EdgeSeqs(names, e) ==
    SeqsUpTo((1..Len(names)) \X (Range(names) \cup {UnknownDep}), e)

MakeTasks(names, es, prof) ==
    [i \in 1..Len(names) |->
        [name          |-> names[i],
         depends_on    |-> DepsOf(es, i),
         allow_failure |-> prof[i].allow_failure,
         condition     |-> prof[i].condition,
         glob          |-> prof[i].glob]]

TaskNames(ts) == {ts[i].name : i \in DOMAIN ts}

TaskByName(ts, n) == ts[CHOOSE i \in DOMAIN ts : ts[i].name = n]

(***************************************************************************)
(* sort_tasks_by_dependencies: Kahn's algorithm with a Vec used as a      *)
(* stack.  The initial queue is collected from a HashMap iterator, so its  *)
(* order is arbitrary: the caller passes it as q0.                         *)
(***************************************************************************)
\* An in-degree that records whether a task has a dependency, not how many.
InDegreeFlag(ts) ==
    [n \in TaskNames(ts) |->
        LET d == TaskByName(ts, n).depends_on
        IN  IF \E k \in DOMAIN d : d[k] \in TaskNames(ts) THEN 1 ELSE 0]

\* in_degree after the "Build graph" loop.
InDegree(ts) ==
    [n \in TaskNames(ts) |->
        LET d == TaskByName(ts, n).depends_on
        IN  Cardinality({k \in DOMAIN d : d[k] \in TaskNames(ts)})]

RECURSIVE EdgeList(_, _)
\* Every (dependency, dependent) push of the "Build graph" loop, in order.
EdgeList(ts, i) ==
    IF i > Len(ts) THEN <<>>
    ELSE LET d    == ts[i].depends_on
             here == [k \in 1..Len(d) |-> <<d[k], ts[i].name>>]
         IN  SelectSeq(here, LAMBDA p : p[1] \in TaskNames(ts))
                \o EdgeList(ts, i + 1)

\* graph[n]: the dependents of n, in push order.
Graph(ts) ==
    [n \in TaskNames(ts) |->
        LET sel == SelectSeq(EdgeList(ts, 1), LAMBDA p : p[1] = n)
        IN  [k \in 1..Len(sel) |-> sel[k][2]]]

\* The zero in-degree names the initial queue is collected from.
ZeroDegree(ts) == {n \in TaskNames(ts) : InDegree(ts)[n] = 0}

RECURSIVE Relax(_, _, _)
\* The inner loop over the neighbours of a popped node.
Relax(neighbors, queue, deg) ==
    IF neighbors = <<>> THEN [queue |-> queue, deg |-> deg]
    ELSE LET nb   == Head(neighbors)
             deg2 == [deg EXCEPT ![nb] = deg[nb] - 1]
             q2   == IF deg2[nb] = 0 THEN Append(queue, nb) ELSE queue
         IN  Relax(Tail(neighbors), q2, deg2)

RECURSIVE KahnLoop(_, _, _, _)
\* while let Some(node) = queue.pop()
KahnLoop(graph, queue, deg, sorted) ==
    IF queue = <<>> THEN sorted
    ELSE LET node == queue[Len(queue)]
             rest == SubSeq(queue, 1, Len(queue) - 1)
             r    == Relax(graph[node], rest, deg)
         IN  KahnLoop(graph, r.queue, r.deg, Append(sorted, node))

\* A sort without the final length check.
SortNoCycleCheck(ts, q0) ==
    [ok |-> TRUE, order |-> KahnLoop(Graph(ts), q0, InDegree(ts), <<>>)]

\* A sort that returns the tasks as declared.
SortAsDeclared(ts, q0) ==
    [ok |-> TRUE, order |-> [i \in DOMAIN ts |-> ts[i].name]]

\* The Result of the sort: the sorted task names, or the cycle error.
SortTasksByDependencies(ts, q0) ==
    LET sorted == KahnLoop(Graph(ts), q0, InDegree(ts), <<>>)
    IN  IF Len(sorted) # Len(ts)
        THEN [ok |-> FALSE, order |-> <<>>]
        ELSE [ok |-> TRUE, order |-> sorted]

(***************************************************************************)
(* State.                                                                  *)
(***************************************************************************)
VARIABLES
    hook,               \* the Hook: tasks, parallel and fail_fast overrides
    settings,           \* the executor's Settings
    executor,           \* the executor's staged_files and current_branch
    host,               \* the process's environment, file system and platform
    pc,                 \* where execute_hook's own thread of control is
    parallel,           \* execute_hook's local `parallel`
    fail_fast,          \* execute_hook's local `fail_fast`
    sorted_tasks,       \* names, in the order the sort returned
    executable_tasks,   \* names that passed the condition filter, in order
    evaluated,          \* names whose condition has been evaluated
    idx,                \* index of the loop the main thread is in
    permits,            \* permits the semaphore has left
    completed,          \* the shared completed set
    failed,             \* the shared fail flag
    results,            \* the result vector being built
    handles,            \* execute_parallel's JoinHandles, by task name
    tpc,                \* per task: where its subprocess / spawned task is
    tres,               \* per task: what execute_task returned
    outcome,            \* what execute_hook returned
    hook_result,        \* the HookResult returned, as an Option
    running_at_failure, \* names running when a fail flag store happened
    call,               \* a call of one function of the engine, and its return
    finished_before,    \* pairs <<m, n>>: m handed over its result while n's
                        \* subprocess was running
    guards,             \* the MutexGuards alive: pairs <<holder, lock>>
    starts              \* per task: how often it was started

vars == <<hook, settings, executor, host, guards, starts, call, finished_before, pc, parallel, fail_fast, sorted_tasks,
          executable_tasks, evaluated, idx, permits, completed, failed,
          results, handles, tpc, tres, outcome, hook_result,
          running_at_failure>>

Tasks == hook.tasks

Task(n) == TaskByName(Tasks, n)

(***************************************************************************)
(* Pure helpers of the executor.                                           *)
(***************************************************************************)
\* regex::Regex::new, as an Option, for patterns of literal characters and
\* an unclosed `(`, which is an error.
RegexNew(p) == IF \E i \in DOMAIN p : p[i] = "(" THEN {} ELSE {p}

\* Regex::is_match of a pattern of literal characters: an unanchored search.
RegexIsMatch(re, s) == Contains(s, re)

\* A comparison with what follows the operator, white space included.
EvaluateBranchConditionUntrimmed(condition) ==
    LET branch == UnwrapOr(executor.current_branch, <<>>)
        stripped == StripPrefix(condition, StrBranch)
    IN  IF stripped = {} THEN TRUE
        ELSE LET rest == Trim(Unwrap(stripped))
                 eq   == StripPrefix(rest, StrEq)
                 ne   == StripPrefix(rest, StrNe)
             IN  IF eq # {} THEN branch = Unwrap(eq)
                 ELSE IF ne # {} THEN branch # Unwrap(ne)
                 ELSE TRUE

\* evaluate_branch_condition
EvaluateBranchCondition(condition) ==
    LET branch == UnwrapOr(executor.current_branch, <<>>)
        stripped == StripPrefix(condition, StrBranch)
    IN  IF stripped = {} THEN TRUE
        ELSE LET rest == Trim(Unwrap(stripped))
                 eq   == StripPrefix(rest, StrEq)
                 ne   == StripPrefix(rest, StrNe)
                 re   == StripPrefix(rest, StrRe)
             IN  IF eq # {} THEN branch = Trim(Unwrap(eq))
                 ELSE IF ne # {} THEN branch # Trim(Unwrap(ne))
                 ELSE IF re # {} /\ RegexNew(Trim(Unwrap(re))) # {}
                 THEN RegexIsMatch(Unwrap(RegexNew(Trim(Unwrap(re)))), branch)
                 ELSE TRUE

\* std::env::var(key): Ok for a variable that is set to valid Unicode; an Err
\* for one that is not set (NotPresent) and for one whose value is not valid
\* Unicode (NotUnicode).
EnvVar(key) == IF key \in host.env THEN {key} ELSE {}

\* An evaluation whose answer depends on whether it was asked before.
EvaluateConditionOnce(t) ==
    IF t.condition = {} THEN TRUE
    ELSE call.fn = "evaluate_condition" /\ call.rets = <<>>

\* An evaluation that refuses what it does not recognise.
EvaluateConditionStrict(t) ==
    IF t.condition = {} THEN TRUE
    ELSE LET condition == Trim(Unwrap(t.condition))
             env       == StripPrefix(condition, StrEnv)
             notenv    == StripPrefix(condition, StrNotEnv)
             exists    == StripPrefix(condition, StrExists)
             notexists == StripPrefix(condition, StrNotExists)
         IN  IF env # {} THEN EnvVar(Trim(Unwrap(env))) # {}
             ELSE IF notenv # {} THEN EnvVar(Trim(Unwrap(notenv))) = {}
             ELSE IF Contains(condition, StrBranch)
             THEN EvaluateBranchCondition(condition)
             ELSE IF exists # {} THEN Trim(Unwrap(exists)) \in host.paths
             ELSE IF notexists # {}
             THEN Trim(Unwrap(notexists)) \notin host.paths
             ELSE FALSE

\* evaluate_condition
EvaluateCondition(t) ==
    IF t.condition = {} THEN TRUE
    ELSE LET condition == Trim(Unwrap(t.condition))
             env       == StripPrefix(condition, StrEnv)
             notenv    == StripPrefix(condition, StrNotEnv)
             exists    == StripPrefix(condition, StrExists)
             notexists == StripPrefix(condition, StrNotExists)
         IN  IF env # {} THEN EnvVar(Trim(Unwrap(env))) # {}
             ELSE IF notenv # {} THEN EnvVar(Trim(Unwrap(notenv))) = {}
             ELSE IF Contains(condition, StrBranch)
             THEN EvaluateBranchCondition(condition)
             ELSE IF exists # {} THEN Trim(Unwrap(exists)) \in host.paths
             ELSE IF notexists # {}
             THEN Trim(Unwrap(notexists)) \notin host.paths
             ELSE TRUE

\* has_dependencies
HasDependencies(names) == \E i \in DOMAIN names : Task(names[i]).depends_on # <<>>

\* The non-empty trimmed pieces of a glob specification.
GlobPatterns(glob_pattern) ==
    LET pieces == Split(glob_pattern, {",", " "})
    IN  SelectSeq([i \in DOMAIN pieces |-> Trim(pieces[i])],
                  LAMBDA piece : piece # <<>>)

\* exclude_patterns: the valid patterns of the pieces that start with `!`.
ExcludePatterns(patterns) ==
    LET negated == SelectSeq(patterns, LAMBDA pat : StripPrefix(pat, <<"!">>) # {})
        valid   == SelectSeq(negated,
                       LAMBDA pat : PatternNew(Unwrap(StripPrefix(pat, <<"!">>))) # {})
    IN  [i \in DOMAIN valid |-> Unwrap(PatternNew(Unwrap(StripPrefix(valid[i], <<"!">>))))]

\* include_patterns: the valid patterns of the other pieces.
IncludePatterns(patterns) ==
    LET plain == SelectSeq(patterns, LAMBDA pat : StripPrefix(pat, <<"!">>) = {})
        valid == SelectSeq(plain, LAMBDA pat : PatternNew(pat) # {})
    IN  [i \in DOMAIN valid |-> Unwrap(PatternNew(valid[i]))]

\* A pattern list that matches the path as given only.
MatchesAnyPathOnly(pats, f) ==
    \E i \in DOMAIN pats : PatternMatches(pats[i], f)

\* patterns.iter().any(...): the path as given, the bare file name, the path
\* with `\` replaced by `/`.
MatchesAny(pats, f) ==
    \E i \in DOMAIN pats :
        \/ PatternMatches(pats[i], f)
        \/ PatternMatches(pats[i], FileName(f, host.windows))
        \/ PatternMatches(pats[i], Replace(f, "\\", "/"))

\* filter_files
FilterFiles(t) ==
    IF t.glob = {} THEN <<>>
    ELSE LET patterns == GlobPatterns(Unwrap(t.glob))
             include  == IncludePatterns(patterns)
             exclude  == ExcludePatterns(patterns)
         IN  IF include = <<>> THEN <<>>
             ELSE SelectSeq(executor.staged_files,
                            LAMBDA f : IF ~MatchesAny(include, f) THEN FALSE
                                       ELSE ~MatchesAny(exclude, f))

\* The `{files}` placeholder of a command template.
StrFiles == <<"{", "f", "i", "l", "e", "s", "}">>

\* Lines 473-484: the paths, one in double quotes if it contains a space,
\* joined by single spaces.
FilesStr(files) ==
    Join([i \in DOMAIN files |->
             IF Contains(files[i], <<" ">>)
             THEN <<"\"">> \o files[i] \o <<"\"">>
             ELSE files[i]],
         <<" ">>)

\* A template to which no file list is ever appended.
WithFilesNeverAppended(t, files) ==
    IF Contains(t.run, StrFiles) THEN ReplaceStr(t.run, StrFiles, FilesStr(files))
    ELSE t.run

\* Lines 486-494: the template with the file list put in or appended.
WithFiles(t, files) ==
    IF Contains(t.run, StrFiles) THEN ReplaceStr(t.run, StrFiles, FilesStr(files))
    ELSE IF t.glob # {} /\ files # <<>> THEN t.run \o <<" ">> \o FilesStr(files)
    ELSE t.run

RECURSIVE WithArgs(_, _, _, _, _)
\* The loops of lines 497-500 and 503-506, from argument i on: every
\* occurrence of the placeholder of an argument is replaced, one argument
\* after the other.
WithArgs(command, args, i, open, close) ==
    IF i > Len(args) THEN command
    ELSE WithArgs(ReplaceStr(command, open \o ToString(i) \o close, args[i]),
                  args, i + 1, open, close)

\* build_command
BuildCommand(t, files) ==
    WithArgs(WithArgs(WithFiles(t, files), executor.hook_args, 1, <<"$">>, <<>>),
             executor.hook_args, 1, <<"{">>, <<"}">>)

\* task.glob.is_some() && files.is_empty(), files being filter_files(task)
SkipForFiles(t) == t.glob # {} /\ FilterFiles(t) = <<>>

\* max_parallel, 0 meaning the host's available parallelism
PoolSize == IF settings.max_parallel = 0 THEN NumCpus ELSE settings.max_parallel

\* A HookResult whose success forgives the failures before the last result.
HookResultNewLast(rs) ==
    [tasks |-> rs, success |-> rs = <<>> \/ rs[Len(rs)].success,
     total_tasks |-> Len(rs)]

\* A HookResult that succeeds when some task did.
HookResultNewAny(rs) ==
    [tasks |-> rs, success |-> \E i \in DOMAIN rs : rs[i].success,
     total_tasks |-> Len(rs)]

\* HookResult::new
HookResultNew(rs) ==
    [tasks |-> rs, success |-> \A i \in DOMAIN rs : rs[i].success,
     total_tasks |-> Len(rs)]

\* TaskResult::success / TaskResult::failure
TaskResult(n, res) == [name |-> n, success |-> (res = "ok")]

\* The pairs recording that n hands over its result while the subprocess of
\* another task is running.
FinishesBefore(n) ==
    finished_before \cup
        {<<n, m>> : m \in {m \in DOMAIN tpc : m # n /\ tpc[m] = "running"}}

\* The mode execute_hook dispatched to.
Mode ==
    IF pc \in {"start", "filter"} \/ outcome = "err_cycle" THEN "none"
    ELSE IF ~parallel THEN "seq"
    ELSE IF HasDependencies(executable_tasks) THEN "dep"
    ELSE "par"

(***************************************************************************)
(* Initial states.                                                         *)
(***************************************************************************)
\* Everything execute_hook sets up before its first step.
Fresh(ts) ==
    /\ pc = "start"
    /\ parallel = FALSE
    /\ fail_fast = FALSE
    /\ sorted_tasks = <<>>
    /\ executable_tasks = <<>>
    /\ evaluated = {}
    /\ idx = 1
    /\ permits = 0
    /\ completed = {}
    /\ failed = FALSE
    /\ results = <<>>
    /\ handles = <<>>
    /\ tpc = [n \in TaskNames(ts) |-> "idle"]
    /\ tres = [n \in TaskNames(ts) |-> "none"]
    /\ outcome = "pending"
    /\ hook_result = {}
    /\ running_at_failure = {}
    /\ finished_before = {}
    /\ guards = {}
    /\ starts = [n \in TaskNames(ts) |-> 0]

\* Two-task hooks, every profile, every mode and pool size.
InitHook ==
    /\ \E es \in EdgeSeqs(HookNames, MaxEdges),
          prof \in [1..Len(HookNames) -> TaskProfiles] :
          hook = [tasks     |-> MakeTasks(HookNames, es, prof),
                  parallel  |-> {},
                  fail_fast |-> {}]
    /\ settings \in [parallel : BOOLEAN, fail_fast : BOOLEAN,
                     max_parallel : 0..MaxParallelSetting]
    /\ executor = HookExecutor
    /\ host = HookHost
    /\ call = [fn |-> "none"]
    /\ Fresh(hook.tasks)

\* Three-task hooks with richer dependency lists, run sequentially.
InitSort ==
    /\ \E es \in EdgeSeqs(SortNames, SortMaxEdges) :
          hook = [tasks     |-> MakeTasks(SortNames, es,
                                          [i \in 1..Len(SortNames) |-> PlainProfile]),
                  parallel  |-> {},
                  fail_fast |-> {}]
    /\ settings \in [parallel : {FALSE}, fail_fast : BOOLEAN, max_parallel : {0}]
    /\ executor = HookExecutor
    /\ host = HookHost
    /\ call = [fn |-> "none"]
    /\ Fresh(hook.tasks)

\* Hooks of two independent tasks that override a global setting.
InitOverrides ==
    /\ \E par \in {{}, {TRUE}, {FALSE}}, ff \in {{}, {TRUE}, {FALSE}} :
          /\ par # {} \/ ff # {}
          /\ hook = [tasks     |-> MakeTasks(HookNames, <<>>,
                                             [i \in 1..Len(HookNames) |-> PlainProfile]),
                     parallel  |-> par,
                     fail_fast |-> ff]
    /\ settings \in [parallel : BOOLEAN, fail_fast : BOOLEAN, max_parallel : {0}]
    /\ executor = HookExecutor
    /\ host = HookHost
    /\ call = [fn |-> "none"]
    /\ Fresh(hook.tasks)

\* A hook without tasks.
InitEmpty ==
    /\ hook = [tasks |-> <<>>, parallel |-> {}, fail_fast |-> {}]
    /\ settings \in [parallel : BOOLEAN, fail_fast : BOOLEAN,
                     max_parallel : 0..MaxParallelSetting]
    /\ executor = HookExecutor
    /\ host = HookHost
    /\ call = [fn |-> "none"]
    /\ Fresh(hook.tasks)

Init == InitHook \/ InitSort \/ InitOverrides \/ InitEmpty

(***************************************************************************)
(* execute_hook.                                                           *)
(***************************************************************************)
\* Ok(HookResult::new(results, total_duration))
Return(rs) ==
    /\ pc' = "done"
    /\ outcome' = "ok"
    /\ hook_result' = {HookResultNew(rs)}

\* An Err return.
Fail(kind) ==
    /\ pc' = "done"
    /\ outcome' = kind
    /\ hook_result' = {}

\* Lines 61-66: resolve the settings and sort; the cycle error returns.
SortTasks ==
    /\ pc = "start"
    /\ parallel' = UnwrapOr(hook.parallel, settings.parallel)
    /\ fail_fast' = UnwrapOr(hook.fail_fast, settings.fail_fast)
    /\ \E q0 \in Perms(ZeroDegree(Tasks)) :
          LET r == SortTasksByDependencies(Tasks, q0)
          IN  IF r.ok
              THEN /\ sorted_tasks' = r.order
                   /\ pc' = "filter"
                   /\ UNCHANGED <<outcome, hook_result>>
              ELSE /\ sorted_tasks' = <<>>
                   /\ Fail("err_cycle")
    /\ UNCHANGED <<hook, settings, executor, host, guards, starts, call, finished_before, executable_tasks, evaluated, idx, permits,
                   completed, failed, results, handles, tpc, tres,
                   running_at_failure>>

\* A filter that keeps every task.
ExecutableTasksUnfiltered(sorted) == sorted

\* A filter that lists every task it keeps twice.
ExecutableTasksTwice(sorted) ==
    SelectSeq(sorted, LAMBDA n : EvaluateCondition(Task(n)))
        \o SelectSeq(sorted, LAMBDA n : EvaluateCondition(Task(n)))

\* Lines 69-72: the sorted tasks whose condition evaluates to true.
ExecutableTasks(sorted) ==
    SelectSeq(sorted, LAMBDA n : EvaluateCondition(Task(n)))

\* A filter that was built and never driven.
ConditionsEvaluatedNever(sorted) == {}

\* Lines 69-72: collect() drives the filter over the whole sorted list, so
\* the condition of every task is evaluated here.
ConditionsEvaluated(sorted) == Range(sorted)

\* Lines 68-79, and the set-up of the mode dispatched to.
FilterConditions ==
    /\ pc = "filter"
    /\ LET exec == ExecutableTasks(sorted_tasks)
       IN  /\ executable_tasks' = exec
           /\ evaluated' = ConditionsEvaluated(sorted_tasks)
           /\ IF parallel /\ ~HasDependencies(exec)
              THEN pc' = "par_loop" /\ permits' = PoolSize
              ELSE IF ~parallel
                   THEN pc' = "seq_loop" /\ permits' = permits
                   ELSE pc' = "dep_check1" /\ permits' = PoolSize
    /\ idx' = 1
    /\ UNCHANGED <<hook, settings, executor, host, guards, starts, call, finished_before, parallel, fail_fast, sorted_tasks,
                   completed, failed, results, handles, tpc, tres, outcome,
                   hook_result, running_at_failure>>

Current == Task(executable_tasks[idx])

(***************************************************************************)
(* execute_sequential.                                                     *)
(***************************************************************************)
\* Lines 220-228: the head of the loop, up to the await of execute_task;
\* the subprocess starts, or cannot be started and `?` returns the error.
SeqNext ==
    /\ pc = "seq_loop"
    /\ IF idx > Len(executable_tasks)
       THEN /\ Return(results)
            /\ UNCHANGED <<idx, tpc, starts>>
       ELSE IF SkipForFiles(Current)
       THEN /\ idx' = idx + 1
            /\ UNCHANGED <<pc, outcome, hook_result, tpc, starts>>
       ELSE \/ /\ tpc' = [tpc EXCEPT ![Current.name] = "running"]
               /\ starts' = [starts EXCEPT ![Current.name] = @ + 1]
               /\ pc' = "seq_await"
               /\ UNCHANGED <<idx, outcome, hook_result>>
            \/ /\ Fail("err_spawn")
               /\ UNCHANGED <<idx, tpc, starts>>
    /\ UNCHANGED <<hook, settings, executor, host, guards, call, finished_before, parallel, fail_fast, sorted_tasks,
                   executable_tasks, evaluated, permits, completed, failed,
                   results, handles, tres, running_at_failure>>

\* A loop that never breaks.
SeqBreaksNever(t, res) == FALSE

\* A loop that breaks on a failure whatever fail-fast is.
SeqBreaksWithoutFailFast(t, res) == res = "fail" /\ ~t.allow_failure

\* Line 232: failed && fail_fast && !task.allow_failure
SeqBreaks(t, res) == res = "fail" /\ fail_fast /\ ~t.allow_failure

\* Lines 228-234: the subprocess exits, its result is pushed, the loop
\* breaks on a failure under fail-fast.
SeqTaskExit ==
    /\ pc = "seq_await"
    /\ \E res \in {"ok", "fail"} :
          LET t  == Current
              rs == Append(results, TaskResult(t.name, res))
          IN  /\ results' = rs
              /\ tpc' = [tpc EXCEPT ![t.name] = "done"]
              /\ tres' = [tres EXCEPT ![t.name] = res]
              /\ finished_before' = FinishesBefore(t.name)
              /\ IF SeqBreaks(t, res)
                 THEN Return(rs) /\ idx' = idx
                 ELSE /\ idx' = idx + 1
                      /\ pc' = "seq_loop"
                      /\ UNCHANGED <<outcome, hook_result>>
    /\ UNCHANGED <<hook, settings, executor, host, guards, starts, call, parallel, fail_fast, sorted_tasks,
                   executable_tasks, evaluated, permits, completed, failed,
                   handles, running_at_failure>>

(***************************************************************************)
(* The spawned task of both concurrent modes (lines 313-332, 395-413).     *)
(***************************************************************************)
\* tokio::sync::Mutex: lock().await returns once no guard of the lock is
\* alive.
LockFree(lock) == \A g \in guards : g[2] # lock

\* A spawn that does not wait for a permit.
SpawnUnbounded(n) ==
    /\ permits' = IF permits > 0 THEN permits - 1 ELSE 0
    /\ tpc' = [tpc EXCEPT ![n] = "running"]
    /\ starts' = [starts EXCEPT ![n] = @ + 1]

\* permit = semaphore.acquire_owned().await; tokio::spawn(...): the task
\* holds the permit and starts its subprocess.
Spawn(n) ==
    /\ permits > 0
    /\ permits' = permits - 1
    /\ tpc' = [tpc EXCEPT ![n] = "running"]
    /\ starts' = [starts EXCEPT ![n] = @ + 1]

\* A failure that is stored whatever the task allows.
FatalWhateverAllowed(n) == tres[n] = "fail"

\* A task whose failure is never stored.
FatalNever(n) == FALSE

\* Whether the task's result makes it store the fail flag.
Fatal(n) == tres[n] = "fail" /\ ~Task(n).allow_failure

\* Lines 321-322 / 403-404: execute_task returns (exit status zero, non-zero,
\* or the subprocess could not be started) and the permit is dropped.
TaskExit(n) ==
    /\ pc # "done"
    /\ tpc[n] = "running"
    /\ Mode \in {"par", "dep"}
    /\ \E res \in {"ok", "fail", "err"} : tres' = [tres EXCEPT ![n] = res]
    /\ tpc' = [tpc EXCEPT ![n] = "exited"]
    /\ permits' = permits + 1
    /\ UNCHANGED <<hook, settings, executor, host, guards, starts, call, finished_before, pc, parallel, fail_fast, sorted_tasks,
                   executable_tasks, evaluated, idx, completed, failed,
                   results, handles, outcome, hook_result,
                   running_at_failure>>

\* The tasks whose subprocess is running while n stores the fail flag.
RunningBeside(n) == {m \in DOMAIN tpc : m # n /\ tpc[m] = "running"}

\* Lines 406-412: execute_parallel's task stores the flag and returns its
\* result through the JoinHandle.
TaskReturn(n) ==
    /\ pc # "done"
    /\ tpc[n] = "exited"
    /\ Mode = "par"
    /\ tpc' = [tpc EXCEPT ![n] = "finished"]
    /\ finished_before' = FinishesBefore(n)
    /\ IF Fatal(n)
       THEN /\ failed' = TRUE
            /\ running_at_failure' = running_at_failure \cup RunningBeside(n)
       ELSE UNCHANGED <<failed, running_at_failure>>
    /\ UNCHANGED <<hook, settings, executor, host, guards, starts, call, pc, parallel, fail_fast, sorted_tasks,
                   executable_tasks, evaluated, idx, permits, completed,
                   results, handles, tres, outcome, hook_result>>

\* Lines 324-327: execute_with_dependencies' task stores the flag.
TaskStoreFailed(n) ==
    /\ pc # "done"
    /\ tpc[n] = "exited"
    /\ Mode = "dep"
    /\ Fatal(n)
    /\ tpc' = [tpc EXCEPT ![n] = "stored"]
    /\ failed' = TRUE
    /\ running_at_failure' = running_at_failure \cup RunningBeside(n)
    /\ UNCHANGED <<hook, settings, executor, host, guards, starts, call, finished_before, pc, parallel, fail_fast, sorted_tasks,
                   executable_tasks, evaluated, idx, permits, completed,
                   results, handles, tres, outcome, hook_result>>

\* Line 328: results_clone.lock().await.push(res); the guard is a temporary
\* of the statement.
TaskPushResult(n) ==
    /\ pc # "done"
    /\ \/ tpc[n] = "stored"
       \/ tpc[n] = "exited" /\ tres[n] # "err" /\ ~Fatal(n)
    /\ Mode = "dep"
    /\ LockFree("results")
    /\ tpc' = [tpc EXCEPT ![n] = "pushed"]
    /\ results' = Append(results, TaskResult(n, tres[n]))
    /\ finished_before' = FinishesBefore(n)
    /\ UNCHANGED <<hook, settings, executor, host, guards, starts, call, pc, parallel, fail_fast, sorted_tasks,
                   executable_tasks, evaluated, idx, permits, completed,
                   failed, handles, tres, outcome, hook_result,
                   running_at_failure>>

\* Line 331: completed_clone.lock().await.insert(name); the guard is a
\* temporary of the statement.
TaskMarkCompleted(n) ==
    /\ pc # "done"
    /\ \/ tpc[n] = "pushed"
       \/ tpc[n] = "exited" /\ tres[n] = "err"
    /\ Mode = "dep"
    /\ LockFree("completed")
    /\ tpc' = [tpc EXCEPT ![n] = "completed"]
    /\ completed' = completed \cup {n}
    /\ UNCHANGED <<hook, settings, executor, host, guards, starts, call, finished_before, pc, parallel, fail_fast, sorted_tasks,
                   executable_tasks, evaluated, idx, permits, failed,
                   results, handles, tres, outcome, hook_result,
                   running_at_failure>>

\* Line 332: the task's future ends and drops what it captured, its clones
\* of the Arcs included.
TaskDrop(n) ==
    /\ pc # "done"
    /\ tpc[n] = "completed"
    /\ Mode = "dep"
    /\ tpc' = [tpc EXCEPT ![n] = "done"]
    /\ UNCHANGED <<hook, settings, executor, host, guards, starts, call, finished_before, pc, parallel, fail_fast, sorted_tasks,
                   executable_tasks, evaluated, idx, permits, completed,
                   failed, results, handles, tres, outcome, hook_result,
                   running_at_failure>>

(***************************************************************************)
(* execute_parallel.                                                       *)
(***************************************************************************)
\* Lines 375-386: the head of the loop, up to the await of the permit.
ParLoop ==
    /\ pc = "par_loop"
    /\ IF idx > Len(executable_tasks)
       THEN pc' = "par_join" /\ idx' = 1
       ELSE IF SkipForFiles(Current)
       THEN pc' = pc /\ idx' = idx + 1
       ELSE IF fail_fast /\ failed
       THEN pc' = "par_join" /\ idx' = 1
       ELSE pc' = "par_acquire" /\ idx' = idx
    /\ UNCHANGED <<hook, settings, executor, host, guards, starts, call, finished_before, parallel, fail_fast, sorted_tasks,
                   executable_tasks, evaluated, permits, completed, failed,
                   results, handles, tpc, tres, outcome, hook_result,
                   running_at_failure>>

\* Lines 388-415: the permit is acquired, the task spawned, its handle kept.
ParSpawn ==
    /\ pc = "par_acquire"
    /\ Spawn(Current.name)
    /\ handles' = Append(handles, Current.name)
    /\ idx' = idx + 1
    /\ pc' = "par_loop"
    /\ UNCHANGED <<hook, settings, executor, host, guards, call, finished_before, parallel, fail_fast, sorted_tasks,
                   executable_tasks, evaluated, completed, failed, results,
                   tres, outcome, hook_result, running_at_failure>>

\* Lines 418-427: the handles are awaited in the order they were pushed.
ParJoin ==
    /\ pc = "par_join"
    /\ IF idx > Len(handles)
       THEN /\ Return(results)
            /\ UNCHANGED <<idx, results, tpc>>
       ELSE LET n == handles[idx]
            IN  /\ tpc[n] = "finished"
                /\ IF tres[n] = "err"
                   THEN /\ Fail("err_spawn")
                        /\ UNCHANGED <<idx, results, tpc>>
                   ELSE /\ results' = Append(results, TaskResult(n, tres[n]))
                        /\ tpc' = [tpc EXCEPT ![n] = "joined"]
                        /\ idx' = idx + 1
                        /\ UNCHANGED <<pc, outcome, hook_result>>
    /\ UNCHANGED <<hook, settings, executor, host, guards, starts, call, finished_before, parallel, fail_fast, sorted_tasks,
                   executable_tasks, evaluated, permits, completed, failed,
                   handles, tres, running_at_failure>>

(***************************************************************************)
(* execute_with_dependencies, parallel.                                    *)
(***************************************************************************)
\* A dependency check that never waits.
DepsSatisfiedAlways(t) == TRUE

\* A dependency check that waits for every declared name.
DepsSatisfiedStrict(t) ==
    \A k \in DOMAIN t.depends_on : t.depends_on[k] \in completed

\* Lines 275-277: task_map holds the tasks this function was given, the
\* condition-filtered ones.
DepsSatisfied(t) ==
    \A k \in DOMAIN t.depends_on :
        \/ t.depends_on[k] \in completed
        \/ t.depends_on[k] \notin Range(executable_tasks)

\* Lines 338-347: the tasks not skipped for an empty file selection.
Expected ==
    Cardinality({i \in DOMAIN executable_tasks :
                    ~SkipForFiles(Task(executable_tasks[i]))})

DepFrame ==
    UNCHANGED <<hook, settings, executor, host, guards, starts, call, finished_before, parallel, fail_fast, sorted_tasks,
                executable_tasks, evaluated, idx, permits, completed, failed,
                results, handles, tpc, tres, outcome, hook_result,
                running_at_failure>>

\* Lines 266-270: the loop's head and its first load of the fail flag.
DepCheckFailFast ==
    /\ pc = "dep_check1"
    /\ pc' = IF idx > Len(executable_tasks) THEN "dep_wait"
             ELSE IF fail_fast /\ failed THEN "dep_wait"
             ELSE "dep_deps"
    /\ DepFrame

\* A guard that is dropped at the end of the loop's body only.
DepGuardKept == {}

\* Line 277: drop(completed_guard), before the loop breaks or sleeps.
DepGuardDropped == {<<"loop", "completed">>}

\* Lines 273-282: one look at the completed set, under its lock.
DepCheckDeps ==
    /\ pc = "dep_deps"
    /\ LockFree("completed")
    /\ guards' = (guards \cup {<<"loop", "completed">>}) \ DepGuardDropped
    /\ pc' = IF DepsSatisfied(Current) THEN "dep_check3" ELSE "dep_sleep"
    /\ UNCHANGED <<hook, settings, executor, host, starts, call,
                   finished_before,
                   parallel, fail_fast, sorted_tasks, executable_tasks,
                   evaluated, idx, permits, completed, failed, results,
                   handles, tpc, tres, outcome, hook_result,
                   running_at_failure>>

\* Lines 284-289: after the sleep, the second load of the fail flag.
DepSleep ==
    /\ pc = "dep_sleep"
    /\ pc' = IF fail_fast /\ failed THEN "dep_check3" ELSE "dep_deps"
    /\ DepFrame

\* Lines 292-299: the third load of the fail flag, then filter_files.
DepCheckBeforeSpawn ==
    /\ pc = "dep_check3"
    /\ pc' = IF fail_fast /\ failed THEN "dep_wait"
             ELSE IF SkipForFiles(Current) THEN "dep_skip"
             ELSE "dep_acquire"
    /\ DepFrame

\* A skip that does not record the task as complete.
DepSkipUnrecorded ==
    /\ pc = "dep_skip"
    /\ idx' = idx + 1
    /\ pc' = "dep_check1"
    /\ UNCHANGED <<hook, settings, executor, host, guards, starts, call, finished_before, parallel, fail_fast,
                   sorted_tasks, executable_tasks, evaluated, permits,
                   completed, failed, results, handles, tpc, tres, outcome,
                   hook_result, running_at_failure>>

\* Lines 300-301: a skipped task is recorded as complete; the guard is a
\* temporary of the statement.
DepSkip ==
    /\ pc = "dep_skip"
    /\ LockFree("completed")
    /\ completed' = completed \cup {Current.name}
    /\ idx' = idx + 1
    /\ pc' = "dep_check1"
    /\ UNCHANGED <<hook, settings, executor, host, guards, starts, call, finished_before, parallel, fail_fast, sorted_tasks,
                   executable_tasks, evaluated, permits, failed, results,
                   handles, tpc, tres, outcome, hook_result,
                   running_at_failure>>

\* Lines 304-332: the permit is acquired and the task spawned.
DepSpawn ==
    /\ pc = "dep_acquire"
    /\ Spawn(Current.name)
    /\ idx' = idx + 1
    /\ pc' = "dep_check1"
    /\ UNCHANGED <<hook, settings, executor, host, guards, call, finished_before, parallel, fail_fast, sorted_tasks,
                   executable_tasks, evaluated, completed, failed, results,
                   handles, tres, outcome, hook_result, running_at_failure>>

\* Lines 337-349: the final loop reads the size of the completed set; the
\* guard is a temporary of the let statement.
DepWaitCount ==
    /\ pc = "dep_wait"
    /\ LockFree("completed")
    /\ pc' = IF Cardinality(completed) >= Expected THEN "dep_unwrap"
             ELSE "dep_wait_flag"
    /\ DepFrame

\* Lines 349-353: then the fail flag, and sleeps if neither ends the loop.
DepWaitFlag ==
    /\ pc = "dep_wait_flag"
    /\ pc' = IF fail_fast /\ failed THEN "dep_unwrap" ELSE "dep_wait"
    /\ DepFrame

\* Lines 356-360: Arc::try_unwrap(results) succeeds only when no spawned
\* task holds a clone any more.
DepUnwrap ==
    /\ pc = "dep_unwrap"
    /\ IF \A n \in DOMAIN tpc : tpc[n] \in {"idle", "done"}
       THEN Return(results)
       ELSE Fail("err_unwrap")
    /\ UNCHANGED <<hook, settings, executor, host, guards, starts, call, finished_before, parallel, fail_fast, sorted_tasks,
                   executable_tasks, evaluated, idx, permits, completed,
                   failed, results, handles, tpc, tres, running_at_failure>>

(***************************************************************************)
(* Specifications.                                                         *)
(***************************************************************************)
Next ==
    \/ SortTasks
    \/ FilterConditions
    \/ SeqNext
    \/ SeqTaskExit
    \/ ParLoop
    \/ ParSpawn
    \/ ParJoin
    \/ DepCheckFailFast
    \/ DepCheckDeps
    \/ DepSleep
    \/ DepCheckBeforeSpawn
    \/ DepSkip
    \/ DepSpawn
    \/ DepWaitCount
    \/ DepWaitFlag
    \/ DepUnwrap
    \/ \E n \in DOMAIN tpc : TaskExit(n)
    \/ \E n \in DOMAIN tpc : TaskReturn(n)
    \/ \E n \in DOMAIN tpc : TaskStoreFailed(n)
    \/ \E n \in DOMAIN tpc : TaskPushResult(n)
    \/ \E n \in DOMAIN tpc : TaskMarkCompleted(n)
    \/ \E n \in DOMAIN tpc : TaskDrop(n)

Spec == Init /\ [][Next]_vars

(***************************************************************************)
(* The same program under the scheduling the runtime gives: the function's *)
(* own future is polled whenever it can proceed (a sleep ends, a lock or a *)
(* permit is free, a JoinHandle is ready), every spawned task is polled    *)
(* whenever it can proceed, and every started subprocess exits.            *)
(***************************************************************************)
\* The steps of execute_hook and of the loop it runs.
LoopStep ==
    \/ SortTasks
    \/ FilterConditions
    \/ SeqNext
    \/ SeqTaskExit
    \/ ParLoop
    \/ ParSpawn
    \/ ParJoin
    \/ DepCheckFailFast
    \/ DepCheckDeps
    \/ DepSleep
    \/ DepCheckBeforeSpawn
    \/ DepSkip
    \/ DepSpawn
    \/ DepWaitCount
    \/ DepWaitFlag
    \/ DepUnwrap

\* The steps of the task spawned for n, its subprocess's exit included.
TaskStep(n) ==
    /\ n \in DOMAIN tpc
    /\ \/ TaskExit(n)
       \/ TaskReturn(n)
       \/ TaskStoreFailed(n)
       \/ TaskPushResult(n)
       \/ TaskMarkCompleted(n)
       \/ TaskDrop(n)

Fairness ==
    /\ WF_vars(LoopStep)
    /\ \A n \in Range(HookNames) \cup Range(SortNames) : WF_vars(TaskStep(n))

\* The hooks run under fairness.  Their dependency declarations: none, b on
\* a, b on a name that is no task's, and a on b with b on a.  At most one
\* of their tasks is other than plain.
InitLive ==
    /\ \E es \in { <<>>,
                   << <<2, HookNames[1]>> >>,
                   << <<2, UnknownDep>> >>,
                   << <<1, HookNames[2]>>, <<2, HookNames[1]>> >> },
          prof \in { prof \in [1..Len(HookNames) -> TaskProfiles] :
                        \E i \in DOMAIN prof :
                            \A j \in DOMAIN prof :
                                j # i => prof[j] = PlainProfile } :
          hook = [tasks     |-> MakeTasks(HookNames, es, prof),
                  parallel  |-> {},
                  fail_fast |-> {}]
    /\ settings \in [parallel : BOOLEAN, fail_fast : BOOLEAN,
                     max_parallel : 0..MaxParallelSetting]
    /\ executor = HookExecutor
    /\ host = HookHost
    /\ call = [fn |-> "none"]
    /\ Fresh(hook.tasks)

LiveSpec == (InitLive \/ InitEmpty) /\ [][Next]_vars /\ Fairness

(***************************************************************************)
(* Calls of the engine's pure functions on drawn inputs: filter_files and  *)
(* evaluate_condition of an executor, for a task of a one-task hook.       *)
(***************************************************************************)
\* The patterns glob specifications are drawn from: `*.r`, `a.r`, `s/*`,
\* `?.m` and the invalid `[`.
GlobPats ==
    { <<"*", ".", "r">>, <<"a", ".", "r">>, <<"s", "/", "*">>,
      <<"?", ".", "m">>, <<"[">> }

\* The candidate files: `a.r`, `s/a.r`, `s\a.r`, `b.m`.
CandidatePaths ==
    { <<"a", ".", "r">>, <<"s", "/", "a", ".", "r">>,
      <<"s", "\\", "a", ".", "r">>, <<"b", ".", "m">> }

\* What separates the patterns of a specification: `,`, ` ` or `, `.
Separators == { <<",">>, <<" ">>, <<",", " ">> }

\* A pattern of a specification, with or without the `!` of an exclusion.
Tokens == [neg : BOOLEAN, pat : GlobPats]

TokenText(tok) == IF tok.neg THEN <<"!">> \o tok.pat ELSE tok.pat

RECURSIVE GlobText(_, _)
\* The glob specification that lists the tokens.
GlobText(toks, sep) ==
    IF toks = <<>> THEN <<>>
    ELSE IF Len(toks) = 1 THEN TokenText(toks[1])
    ELSE TokenText(Head(toks)) \o sep \o GlobText(Tail(toks), sep)

\* The paths, branch names and variable names conditions are drawn from:
\* `f`, `branch`, `xbranch`; `m`, `d`; `V`, `branch`.
ConditionPaths == { <<"f">>, StrBranch, <<"x">> \o StrBranch }

BranchNames == { <<"m">>, <<"d">> }

EnvNames == { <<"V">>, StrBranch }

\* The patterns of `branch =~ R`: `m` and the invalid `(`.
RegexPatterns == { <<"m">>, <<"(">> }

\* Conditions of no form of the grammar: the empty one, `f`, `env`,
\* `exist:f`, `branch`, `branch d`, `branch = m`, `xbranch == d`.
RawConditions ==
    { <<>>, <<"f">>, <<"e", "n", "v">>,
      <<"e", "x", "i", "s", "t", ":", "f">>,
      StrBranch, StrBranch \o <<" ", "d">>, StrBranch \o <<" ", "=", " ", "m">>,
      <<"x">> \o StrBranch \o <<" ">> \o StrEq \o <<" ", "d">> }

Paddings == { <<>>, <<" ">> }

ConditionKinds ==
    {"exists", "notexists", "eq", "ne", "re", "env", "notenv", "raw", "none"}

\* What the conditions of a kind are written with.
ConditionArgs(kind) ==
    CASE kind \in {"exists", "notexists"} -> ConditionPaths
      [] kind \in {"eq", "ne"}            -> BranchNames \cup {<<>>}
      [] kind = "re"                      -> RegexPatterns
      [] kind \in {"env", "notenv"}       -> EnvNames
      [] kind = "raw"                     -> RawConditions
      [] kind = "none"                    -> {<<>>}

\* The condition `exists:PATH`, `!exists:PATH`, `branch == X`,
\* `branch != X`, `branch =~ R`, `env:NAME` or `!env:NAME`, or a text of no
\* form, with or without white space around its words.
ConditionText(kind, arg, pad) ==
    CASE kind = "exists"    -> pad \o StrExists \o pad \o arg \o pad
      [] kind = "notexists" -> pad \o StrNotExists \o pad \o arg \o pad
      [] kind = "eq" -> pad \o StrBranch \o pad \o StrEq \o pad \o arg \o pad
      [] kind = "ne" -> pad \o StrBranch \o pad \o StrNe \o pad \o arg \o pad
      [] kind = "re" -> pad \o StrBranch \o pad \o StrRe \o pad \o arg \o pad
      [] kind = "env"    -> pad \o StrEnv \o pad \o arg \o pad
      [] kind = "notenv" -> pad \o StrNotEnv \o pad \o arg \o pad
      [] kind = "raw"    -> pad \o arg \o pad

\* The condition of a task: none, or the text of a kind.
ConditionOf(kind, arg, pad) ==
    IF kind = "none" THEN {} ELSE {ConditionText(kind, arg, pad)}

\* The one task of the hook a function is called for.
CallTask(condition, glob) ==
    [name |-> "a", depends_on |-> <<>>, allow_failure |-> FALSE,
     condition |-> condition, glob |-> glob]

InitFilterFiles ==
    /\ \E toks \in SeqsUpTo(Tokens, MaxPatterns), sep \in Separators :
          /\ hook = [tasks     |-> <<CallTask({}, {GlobText(toks, sep)})>>,
                     parallel  |-> {},
                     fail_fast |-> {}]
          /\ call = [fn |-> "filter_files", tokens |-> toks,
                     done |-> FALSE, ret |-> <<>>]
    /\ \E files \in SeqsUpTo(CandidatePaths, MaxFiles) :
          /\ \A i, j \in DOMAIN files : i # j => files[i] # files[j]
          /\ executor = [staged_files |-> files, current_branch |-> {},
                        hook_args |-> <<>>]
    /\ \E windows \in BOOLEAN :
          host = [env |-> {}, env_raw |-> {}, paths |-> {}, windows |-> windows]

InitEvaluateCondition ==
    /\ \E kind \in ConditionKinds, pad \in Paddings :
       \E arg \in ConditionArgs(kind) :
          /\ hook = [tasks     |-> <<CallTask(ConditionOf(kind, arg, pad), {})>>,
                     parallel  |-> {},
                     fail_fast |-> {}]
          /\ call = [fn |-> "evaluate_condition", kind |-> kind, arg |-> arg,
                     done |-> FALSE, ret |-> FALSE, rets |-> <<>>]
    /\ \E branch \in {{}} \cup {{b} : b \in BranchNames} :
          executor = [staged_files |-> <<>>, current_branch |-> branch,
                      hook_args |-> <<>>]
    /\ \E paths \in SUBSET ConditionPaths, env \in SUBSET EnvNames :
       \E env_raw \in SUBSET (EnvNames \ env) :
          host = [env |-> env, env_raw |-> env_raw, paths |-> paths,
                  windows |-> FALSE]

\* The pieces command templates are drawn from: the text `e`, the `{files}`
\* placeholder, and the placeholders `$1`, `{1}`, `$2` and `$10`.
Pieces ==
    { [kind |-> "text", index |-> 0], [kind |-> "files", index |-> 0],
      [kind |-> "dollar", index |-> 1], [kind |-> "brace", index |-> 1],
      [kind |-> "dollar", index |-> 2], [kind |-> "dollar", index |-> 10] }

PieceText(piece) ==
    CASE piece.kind = "text"   -> <<"e">>
      [] piece.kind = "files"  -> StrFiles
      [] piece.kind = "dollar" -> <<"$">> \o ToString(piece.index)
      [] piece.kind = "brace"  -> <<"{">> \o ToString(piece.index) \o <<"}">>

\* The command template the pieces make.
TemplateText(pieces) == Join([i \in DOMAIN pieces |-> PieceText(pieces[i])], <<>>)

\* The invocation arguments: `x` and `$2`.
ArgTexts == { <<"x">>, <<"$", "2">> }

\* Ten invocation arguments, `a` to `j`.
TenArgs == [i \in 1..10 |-> <<<<"a", "b", "c", "d", "e", "f", "g", "h", "i", "j">>[i]>>]

\* The selected files: `a.r`, `b c` and `$1`.
FileTexts == { <<"a", ".", "r">>, <<"b", " ", "c">>, <<"$", "1">> }

\* The one task of the hook build_command is called for.
RunTask(run, glob) ==
    [name |-> "a", depends_on |-> <<>>, allow_failure |-> FALSE,
     condition |-> {}, glob |-> glob, run |-> run]

InitBuildCommand ==
    /\ \E pieces \in SeqsUpTo(Pieces, MaxPieces), glob \in {{}, {<<"*">>}},
          files \in SeqsUpTo(FileTexts, MaxFiles) :
          /\ \A i, j \in DOMAIN files : i # j => files[i] # files[j]
          /\ hook = [tasks     |-> <<RunTask(TemplateText(pieces), glob)>>,
                     parallel  |-> {},
                     fail_fast |-> {}]
          /\ call = [fn |-> "build_command", pieces |-> pieces, files |-> files,
                     done |-> FALSE, ret |-> <<>>]
    /\ \E args \in SeqsUpTo(ArgTexts, MaxArgs) \cup {TenArgs} :
          executor = [staged_files |-> <<>>, current_branch |-> {},
                      hook_args |-> args]
    /\ host = HookHost

(***************************************************************************)
(* ExecutionStats::from_tasks (stats.rs).  Durations and the wall time are *)
(* u64; their sum is computed in u64, where an overflow panics in a build  *)
(* with overflow checks and wraps in one without.                          *)
(***************************************************************************)
U64Max == 2 ^ WordBits - 1

\* The durations and wall times drawn: the smallest and the largest two.
Durations == {0, 1, U64Max - 1, U64Max}

RECURSIVE MathSum(_)
\* The sum of a sequence of numbers.
MathSum(ns) == IF ns = <<>> THEN 0 ELSE Head(ns) + MathSum(Tail(ns))

RECURSIVE SumOverflows(_, _)
\* Whether adding the numbers to acc, one after the other, leaves u64.
SumOverflows(ns, acc) ==
    IF ns = <<>> THEN FALSE
    ELSE IF acc + Head(ns) > U64Max THEN TRUE
    ELSE SumOverflows(Tail(ns), acc + Head(ns))

\* u64::saturating_sub
SaturatingSub(a, b) == IF a > b THEN a - b ELSE 0

\* Lines 29-46, for a computed cpu_time_ms.
StatsOf(tasks, wall_time_ms, cpu_time_ms) ==
    LET total_tasks      == Len(tasks)
        successful_tasks == Len(SelectSeq(tasks, LAMBDA t : t.success))
    IN  [panicked            |-> FALSE,
         total_tasks         |-> total_tasks,
         successful_tasks    |-> successful_tasks,
         failed_tasks        |-> total_tasks - successful_tasks,
         wall_time_ms        |-> wall_time_ms,
         cpu_time_ms         |-> cpu_time_ms,
         parallel_savings_ms |-> SaturatingSub(cpu_time_ms, wall_time_ms)]

\* What a call that panics leaves.
Panicked ==
    [panicked |-> TRUE, total_tasks |-> 0, successful_tasks |-> 0,
     failed_tasks |-> 0, wall_time_ms |-> 0, cpu_time_ms |-> 0,
     parallel_savings_ms |-> 0]

\* from_tasks: the outcomes the builds of the program can produce.
FromTasks(tasks, wall_time_ms) ==
    LET durations == [i \in DOMAIN tasks |-> tasks[i].duration_ms]
    IN  IF SumOverflows(durations, 0)
        THEN {Panicked,
              StatsOf(tasks, wall_time_ms, MathSum(durations) % (U64Max + 1))}
        ELSE {StatsOf(tasks, wall_time_ms, MathSum(durations))}

InitFromTasks ==
    /\ \E tasks \in SeqsUpTo([name : {"a"}, success : BOOLEAN,
                               duration_ms : Durations], MaxResults),
          wall_time_ms \in Durations :
          call = [fn |-> "from_tasks", tasks |-> tasks,
                  wall_time_ms |-> wall_time_ms, done |-> FALSE,
                  ret |-> Panicked]
    /\ hook = [tasks |-> <<CallTask({}, {})>>, parallel |-> {}, fail_fast |-> {}]
    /\ executor = HookExecutor
    /\ host = HookHost

InitFn ==
    /\ \/ InitFilterFiles
       \/ InitEvaluateCondition
       \/ InitBuildCommand
       \/ InitFromTasks
    /\ settings = [parallel |-> FALSE, fail_fast |-> FALSE, max_parallel |-> 0]
    /\ Fresh(hook.tasks)

FnFrame ==
    UNCHANGED <<hook, settings, executor, host, guards, starts, finished_before, pc, parallel,
                fail_fast,
                sorted_tasks, executable_tasks, evaluated, idx, permits,
                completed, failed, results, handles, tpc, tres, outcome,
                hook_result, running_at_failure>>

\* let files = self.filter_files(task)
CallFilterFiles ==
    /\ call.fn = "filter_files"
    /\ ~call.done
    /\ call' = [call EXCEPT !.done = TRUE, !.ret = FilterFiles(Tasks[1])]
    /\ FnFrame

\* self.evaluate_condition(t)
CallEvaluateCondition ==
    /\ call.fn = "evaluate_condition"
    /\ Len(call.rets) < MaxCalls
    /\ LET ret == EvaluateCondition(Tasks[1])
       IN  call' = [call EXCEPT !.done = TRUE, !.ret = ret,
                                !.rets = Append(@, ret)]
    /\ FnFrame

\* let command = self.build_command(task, files)
CallBuildCommand ==
    /\ call.fn = "build_command"
    /\ ~call.done
    /\ call' = [call EXCEPT !.done = TRUE,
                            !.ret = BuildCommand(Tasks[1], call.files)]
    /\ FnFrame

\* let stats = ExecutionStats::from_tasks(&tasks, total_duration_ms)
CallFromTasks ==
    /\ call.fn = "from_tasks"
    /\ ~call.done
    /\ \E ret \in FromTasks(call.tasks, call.wall_time_ms) :
          call' = [call EXCEPT !.done = TRUE, !.ret = ret]
    /\ FnFrame

NextFn ==
    \/ CallFilterFiles
    \/ CallEvaluateCondition
    \/ CallBuildCommand
    \/ CallFromTasks

FnSpec == InitFn /\ [][NextFn]_vars

(***************************************************************************)
(* ConfigParser::validate (parser.rs).  The errors are a set of records:   *)
(* the hooks are the entries of a HashMap, visited in no particular order. *)
(***************************************************************************)
ValidationError(kind, hook_name, i, k) ==
    [kind |-> kind, hook |-> hook_name, task |-> i, item |-> k]

\* Lines 214-221: task.name.trim().is_empty()
NameErrors(hook_name, tasks, i) ==
    IF Trim(tasks[i].name) = <<>>
    THEN {ValidationError("empty_name", hook_name, i, 0)}
    ELSE {}

\* Lines 223-230: the name is in the set of the names seen before.
DuplicateErrors(hook_name, tasks, i) ==
    IF \E j \in 1..(i - 1) : tasks[j].name = tasks[i].name
    THEN {ValidationError("duplicate_name", hook_name, i, 0)}
    ELSE {}

\* Lines 232-239: task.run.trim().is_empty()
RunErrors(hook_name, tasks, i) ==
    IF Trim(tasks[i].run) = <<>>
    THEN {ValidationError("empty_run", hook_name, i, 0)}
    ELSE {}

\* A validation that does not look at the dependencies.
DependencyErrorsNone(hook_name, tasks, i) == {}

\* Lines 241-257: every dependency that no task of the hook is named by.
DependencyErrors(hook_name, tasks, i) ==
    {ValidationError("missing_dependency", hook_name, i, k) :
        k \in {k \in DOMAIN tasks[i].depends_on :
                  ~\E j \in DOMAIN tasks : tasks[j].name = tasks[i].depends_on[k]}}

\* validate_glob_pattern: every pattern, without its `!`, that is no
\* glob::Pattern.
GlobErrors(hook_name, tasks, i) ==
    IF tasks[i].glob = {} THEN {}
    ELSE LET patterns == GlobPatterns(Unwrap(tasks[i].glob))
         IN  {ValidationError("invalid_glob", hook_name, i, k) :
                 k \in {k \in DOMAIN patterns :
                           PatternNew(UnwrapOr(StripPrefix(patterns[k], <<"!">>),
                                               patterns[k])) = {}}}

\* validate_condition: the condition starts with none of valid_prefixes,
\* or its regular expression is none.
ConditionErrors(hook_name, tasks, i) ==
    IF tasks[i].condition = {} THEN {}
    ELSE LET condition == Trim(Unwrap(tasks[i].condition))
             pattern   == StripPrefix(condition, StrBranch \o <<" ">> \o StrRe)
             valid_prefixes ==
                 { StrBranch \o <<" ">> \o StrEq, StrBranch \o <<" ">> \o StrNe,
                   StrBranch \o <<" ">> \o StrRe, StrEnv, StrNotEnv, StrExists,
                   StrNotExists }
         IN  (IF \E p \in valid_prefixes : StripPrefix(condition, p) # {} THEN {}
              ELSE {ValidationError("unknown_condition", hook_name, i, 0)})
             \cup
             (IF pattern # {} /\ RegexNew(Trim(Unwrap(pattern))) = {}
              THEN {ValidationError("invalid_regex", hook_name, i, 0)}
              ELSE {})

\* validate_hook
ValidateHook(hook_name, h) ==
    IF h.tasks = <<>>
    THEN {ValidationError("no_tasks", hook_name, 0, 0)}
    ELSE UNION {NameErrors(hook_name, h.tasks, i)
                    \cup DuplicateErrors(hook_name, h.tasks, i)
                    \cup RunErrors(hook_name, h.tasks, i)
                    \cup DependencyErrors(hook_name, h.tasks, i)
                    \cup GlobErrors(hook_name, h.tasks, i)
                    \cup ConditionErrors(hook_name, h.tasks, i) :
                i \in DOMAIN h.tasks}

\* validate: an error for an empty version and the errors of every hook;
\* Ok(()) when there is no error, Err(errors) otherwise.
Validate(config) ==
    LET errors == (IF config.version = <<>>
                   THEN {ValidationError("version_missing", "", 0, 0)}
                   ELSE {})
                  \cup UNION {ValidateHook(hook_name, config.hooks[hook_name]) :
                                 hook_name \in DOMAIN config.hooks}
    IN  [ok |-> errors = {}, errors |-> errors]

\* What the tasks of a validated hook have beside their names: the run
\* command ` ` or `c`, no dependency or one on `a`, and no glob and
\* condition, the valid `*.r` and `env:V`, or the invalid `[` and `f`.
ConfigTasks ==
    { [name |-> name, run |-> run, depends_on |-> depends_on,
       glob |-> gc.glob, condition |-> gc.condition] :
          name \in { <<>>, <<"a">>, <<"b">> },
          run \in { <<" ">>, <<"c">> },
          depends_on \in { <<>>, << <<"a">> >> },
          gc \in { [glob |-> {}, condition |-> {}],
                   [glob |-> {<<"*", ".", "r">>}, condition |-> {StrEnv \o <<"V">>}],
                   [glob |-> {<<"[">>}, condition |-> {<<"f">>}] } }

\* The hooks beside the first: none, one without tasks, or one with a task.
OtherHooks ==
    { <<>>,
      << [tasks |-> <<>>] >>,
      << [tasks |-> << [name |-> <<"a">>, run |-> <<"c">>, depends_on |-> <<>>,
                        glob |-> {}, condition |-> {}] >>] >> }

InitValidate ==
    /\ \E tasks \in SeqsUpTo(ConfigTasks, MaxConfigTasks),
          version \in {<<>>, <<"1">>}, other \in OtherHooks :
          call = [fn |-> "validate",
                  config |-> [version |-> version,
                              hooks |-> IF other = <<>>
                                        THEN [h \in {"pre-commit"} |->
                                                 [tasks |-> tasks]]
                                        ELSE [h \in {"pre-commit", "pre-push"} |->
                                                 IF h = "pre-commit"
                                                 THEN [tasks |-> tasks]
                                                 ELSE other[1]]],
                  done |-> FALSE,
                  ret |-> [ok |-> FALSE, errors |-> {}]]
    /\ hook = [tasks |-> <<CallTask({}, {})>>, parallel |-> {}, fail_fast |-> {}]
    /\ settings = [parallel |-> FALSE, fail_fast |-> FALSE, max_parallel |-> 0]
    /\ executor = HookExecutor
    /\ host = HookHost
    /\ Fresh(hook.tasks)

\* ConfigParser::validate(&config)
CallValidate ==
    /\ call.fn = "validate"
    /\ ~call.done
    /\ call' = [call EXCEPT !.done = TRUE, !.ret = Validate(call.config)]
    /\ FnFrame

ValidateSpec == InitValidate /\ [][CallValidate]_vars

(***************************************************************************)
(* HookInstaller (installer.rs) on the hooks directory of a repository,    *)
(* for one hook type.  A file is the sequence of its bytes, the directory  *)
(* a function from the two file names to an Option of the file there.      *)
(***************************************************************************)
\* The marker install_hook and uninstall_hook look for.
StrFasthooks == <<"f", "a", "s", "t", "h", "o", "o", "k", "s">>

\* A byte that no UTF-8 text holds.
InvalidUtf8 == "0xFF"

\* fs::read_to_string, as an Option: None is the InvalidData error.
ReadToString(bytes) == IF InvalidUtf8 \in Range(bytes) THEN {} ELSE {bytes}

\* hooks_dir.join(hook_type.as_str())
HookPath == "pre-commit"

\* hooks_dir.join(format!("{}.backup", hook_type.as_str()))
BackupPath == "pre-commit.backup"

\* HookTemplate::generate(hook_type), shortened to its title and its last
\* command.
HookTemplateGenerate ==
    <<"#", " ", "F", "a", "s", "t", "H", "o", "o", "k", "s", ";">>
        \o StrFasthooks \o <<" ", "r", "u", "n">>

\* fs::rename: the file at `to`, if any, is replaced.
Rename(dir, from, to) == [dir EXCEPT ![to] = dir[from], ![from] = {}]

\* install_hook: the Result and the directory it leaves, fs::write putting
\* the generated script at the hook's path.
InstallHook(dir) ==
    IF dir[HookPath] # {} /\ ReadToString(Unwrap(dir[HookPath])) = {}
    THEN [ok |-> FALSE, dir |-> dir]
    ELSE LET backed_up ==
                 IF /\ dir[HookPath] # {}
                    /\ ~Contains(Unwrap(ReadToString(Unwrap(dir[HookPath]))),
                                 StrFasthooks)
                 THEN Rename(dir, HookPath, BackupPath)
                 ELSE dir
         IN  [ok |-> TRUE,
              dir |-> [backed_up EXCEPT ![HookPath] = {HookTemplateGenerate}]]

\* uninstall_hook: the Result and the directory it leaves, fs::remove_file
\* emptying the hook's path.
UninstallHook(dir) ==
    IF dir[HookPath] = {} THEN [ok |-> TRUE, dir |-> dir]
    ELSE IF ReadToString(Unwrap(dir[HookPath])) = {}
    THEN [ok |-> FALSE, dir |-> dir]
    ELSE IF Contains(Unwrap(ReadToString(Unwrap(dir[HookPath]))), StrFasthooks)
    THEN LET removed == [dir EXCEPT ![HookPath] = {}]
         IN  [ok |-> TRUE,
              dir |-> IF removed[BackupPath] # {}
                      THEN Rename(removed, BackupPath, HookPath)
                      ELSE removed]
    ELSE [ok |-> TRUE, dir |-> dir]

\* The hook files a repository may hold before the first call: a script of
\* the user's, a script of the user's that runs fasthooks, a compiled
\* program, and the file install_hook writes.
HookFiles ==
    { <<"m", "a", "k", "e">>,
      StrFasthooks \o <<" ", "r", "u", "n", ";", "m", "a", "k", "e">>,
      <<"E", "L", "F", InvalidUtf8>>,
      HookTemplateGenerate }

\* The backup file is missing or one an earlier installation left.
InitInstaller ==
    /\ \E hook_file \in {{}} \cup {{f} : f \in HookFiles},
          backup_file \in {{}, {<<"o", "l", "d">>}} :
          LET dir == [path \in {HookPath, BackupPath} |->
                         IF path = HookPath THEN hook_file ELSE backup_file]
          IN  /\ host = [env |-> {}, env_raw |-> {}, paths |-> {},
                         windows |-> FALSE, hooks_dir |-> dir]
              /\ call = [fn |-> "installer", calls |-> <<>>, ok |-> TRUE,
                         original |-> dir, before |-> dir]
    /\ hook = [tasks |-> <<CallTask({}, {})>>, parallel |-> {}, fail_fast |-> {}]
    /\ settings = [parallel |-> FALSE, fail_fast |-> FALSE, max_parallel |-> 0]
    /\ executor = HookExecutor
    /\ Fresh(hook.tasks)

\* What a call named op with the Result r leaves.
Called(op, r) ==
    /\ Len(call.calls) < MaxInstallerCalls
    /\ host' = [host EXCEPT !.hooks_dir = r.dir]
    /\ call' = [call EXCEPT !.calls = Append(@, op), !.ok = r.ok,
                            !.before = host.hooks_dir]
    /\ UNCHANGED <<hook, settings, executor, guards, starts, finished_before, pc,
                   parallel, fail_fast, sorted_tasks, executable_tasks, evaluated,
                   idx, permits, completed, failed, results, handles, tpc, tres,
                   outcome, hook_result, running_at_failure>>

\* installer.install_hook(hook_type)
CallInstallHook ==
    /\ call.fn = "installer"
    /\ Called("install_hook", InstallHook(host.hooks_dir))

\* installer.uninstall_hook(hook_type)
CallUninstallHook ==
    /\ call.fn = "installer"
    /\ Called("uninstall_hook", UninstallHook(host.hooks_dir))

NextInstaller == CallInstallHook \/ CallUninstallHook

InstallerSpec == InitInstaller /\ [][NextInstaller]_vars

(***************************************************************************)
(* Vocabulary of the properties.                                           *)
(***************************************************************************)
\* The declared dependencies of task n that name a task of the hook.
DepsInHook(n) == Range(Task(n).depends_on) \cap TaskNames(Tasks)

\* The dependency relation among the tasks of the hook.
DependsRel == {p \in TaskNames(Tasks) \X TaskNames(Tasks) : p[2] \in DepsInHook(p[1])}

RECURSIVE Closure(_)
Closure(R) ==
    LET R2 == R \cup {p \in TaskNames(Tasks) \X TaskNames(Tasks) :
                         \E m \in TaskNames(Tasks) : <<p[1], m>> \in R /\ <<m, p[2]>> \in R}
    IN  IF R2 = R THEN R ELSE Closure(R2)

HasCycle == \E n \in TaskNames(Tasks) : <<n, n>> \in Closure(DependsRel)

\* The position of a name in a sequence without repetitions.
PosIn(seq, n) == CHOOSE i \in DOMAIN seq : seq[i] = n

ResultNames(rs) == {rs[i].name : i \in DOMAIN rs}

Running == {n \in DOMAIN tpc : tpc[n] = "running"}

Concurrent == Mode \in {"par", "dep"}

\* The states the sort returns into: its Ok value is held by sorted_tasks,
\* its Err value has been returned by execute_hook.
SortReturned == pc = "filter" \/ outcome = "err_cycle"

(***************************************************************************)
(* C1.  For a task list with unique names and an acyclic dependency graph  *)
(* (over the dependency names that are tasks of the list) the sort         *)
(* succeeds and returns a permutation of the tasks in which every task     *)
(* comes after each of its dependencies present in the list.               *)
(***************************************************************************)
C1_SortIsTopologicalOrder ==
    (SortReturned /\ ~HasCycle) =>
        /\ outcome # "err_cycle"
        /\ Len(sorted_tasks) = Len(Tasks)
        /\ Range(sorted_tasks) = TaskNames(Tasks)
        /\ \A n \in TaskNames(Tasks) : \A d \in DepsInHook(n) :
              PosIn(sorted_tasks, d) < PosIn(sorted_tasks, n)

\* Three tasks, one of them with two dependency entries, have been sorted
\* into an order that is not the declared one.
C1_Witness ==
    /\ pc = "filter"
    /\ Len(Tasks) = 3
    /\ sorted_tasks # [i \in 1..3 |-> Tasks[i].name]
    /\ \E n \in TaskNames(Tasks) : Len(Task(n).depends_on) = 2
    /\ Cardinality(DependsRel) >= 2

(***************************************************************************)
(* C2.  For a task list whose dependency graph has a cycle (a task         *)
(* depending on itself included) the sort fails with the cycle error and   *)
(* execute_hook returns it before any condition is evaluated or any        *)
(* command started; no TaskResult is produced.                             *)
(***************************************************************************)
C2_CycleFailsBeforeAnyTask ==
    (SortReturned /\ HasCycle) =>
        /\ pc = "done"
        /\ outcome = "err_cycle"
        /\ evaluated = {}
        /\ \A n \in DOMAIN tpc : tpc[n] = "idle"
        /\ results = <<>>
        /\ hook_result = {}

\* The error has been returned for a cycle through all three tasks.
C2_Witness ==
    /\ outcome = "err_cycle"
    /\ Len(Tasks) = 3
    /\ \A n \in TaskNames(Tasks) : Cardinality(DepsInHook(n) \ {n}) = 1
    /\ \A n, m \in TaskNames(Tasks) : <<n, m>> \in Closure(DependsRel)

(***************************************************************************)
(* C3.  In dependency-aware concurrent mode no task's command is started   *)
(* before every declared dependency that names a task of the hook has      *)
(* been recorded as complete.                                              *)
(***************************************************************************)
\* As claimed: every dependency naming a task of the hook.
C3_StartsAfterDepsOfHook ==
    Mode = "dep" =>
        \A n \in DOMAIN tpc : tpc[n] # "idle" => DepsInHook(n) \subseteq completed

\* As the code has it: every dependency naming a task of the hook that passed
\* the condition filter.
C3_StartsAfterEligibleDeps ==
    Mode = "dep" =>
        \A n \in DOMAIN tpc :
            tpc[n] # "idle" =>
                (DepsInHook(n) \cap Range(executable_tasks)) \subseteq completed

\* A dependent is running after its dependency ran, failed and was recorded
\* as complete.
C3_Witness ==
    /\ Mode = "dep"
    /\ \E n \in DOMAIN tpc, d \in DOMAIN tpc :
          /\ n # d
          /\ tpc[n] = "running"
          /\ d \in DepsInHook(n)
          /\ d \in Range(executable_tasks)
          /\ tres[d] = "fail"
          /\ d \in completed

(***************************************************************************)
(* C4.  In both concurrent modes the number of started, not yet exited     *)
(* subprocesses never exceeds max_parallel (the host's parallelism when    *)
(* max_parallel is 0); a task holds one permit from its spawn to its       *)
(* subprocess's exit.                                                      *)
(***************************************************************************)
C4_RunningBoundedByPool ==
    Concurrent =>
        /\ Cardinality(Running) <= PoolSize
        /\ permits + Cardinality(Running) = PoolSize

\* The pool is exhausted and the loop waits for a permit.
C4_Witness ==
    /\ Concurrent
    /\ pc \in {"par_acquire", "dep_acquire"}
    /\ permits = 0
    /\ Cardinality(Running) = PoolSize

(***************************************************************************)
(* C5.  In both concurrent modes with fail-fast, once a task that is not   *)
(* allow_failure has completed with a failure (its future has finished,    *)
(* the fail flag stored), no further task is spawned.                      *)
(***************************************************************************)
FailureCompleted ==
    \E n \in DOMAIN tpc :
        /\ Fatal(n)
        /\ tpc[n] \in {"finished", "joined", "done"}

C5_NoSpawnAfterFailure ==
    [][(Concurrent /\ fail_fast /\ failed /\ FailureCompleted) =>
          \A m \in DOMAIN tpc : tpc[m] = "idle" => tpc'[m] = "idle"]_vars

(***************************************************************************)
(* C6.  In both concurrent modes with fail-fast, every task that was       *)
(* running when a failure was recorded has its TaskResult in the           *)
(* HookResult execute_hook returns (no subprocess failing to start).       *)
(***************************************************************************)
NoSpawnError == \A n \in DOMAIN tres : tres[n] # "err"

C6_RunningTasksAreCollected ==
    (pc = "done" /\ Concurrent /\ fail_fast /\ NoSpawnError
        /\ running_at_failure # {}) =>
        /\ outcome = "ok"
        /\ \A hr \in hook_result : running_at_failure \subseteq ResultNames(hr.tasks)

(***************************************************************************)
(* C7.  With fail-fast, when a task that is not allow_failure exits        *)
(* non-zero, execute_hook returns a HookResult (not an error) whose        *)
(* success is false and which holds that task's result, in every mode      *)
(* (no subprocess failing to start).                                       *)
(***************************************************************************)
C7_FailureYieldsHookResult ==
    \A n \in DOMAIN tpc :
        (pc = "done" /\ fail_fast /\ Fatal(n) /\ NoSpawnError) =>
            /\ outcome = "ok"
            /\ \A hr \in hook_result :
                  /\ ~hr.success
                  /\ \E i \in DOMAIN hr.tasks :
                        hr.tasks[i].name = n /\ ~hr.tasks[i].success

(***************************************************************************)
(* C8.  In sequential mode the tasks run one at a time in the sorted       *)
(* order, each after the previous one exited; with fail-fast, after the    *)
(* first failure of a task that is not allow_failure no later task runs    *)
(* or has a TaskResult.                                                    *)
(***************************************************************************)
NotSkipped == SelectSeq(executable_tasks, LAMBDA n : ~SkipForFiles(Task(n)))

\* The tasks started so far, in the order they started.
StartedSeq ==
    [i \in 1..(Len(results) + Cardinality(Running)) |->
        IF i <= Len(results) THEN results[i].name ELSE CHOOSE n \in Running : TRUE]

FatalResult(r) == ~r.success /\ ~Task(r.name).allow_failure

C8_SequentialOrderAndFailFast ==
    Mode = "seq" =>
        /\ Cardinality(Running) <= 1
        /\ Len(StartedSeq) <= Len(NotSkipped)
        /\ StartedSeq = SubSeq(NotSkipped, 1, Len(StartedSeq))
        /\ \A n \in DOMAIN tpc : n \notin Range(StartedSeq) => tpc[n] = "idle"
        /\ fail_fast =>
              \A i \in DOMAIN results :
                  FatalResult(results[i]) =>
                      /\ i = Len(results)
                      /\ Running = {}
                      /\ pc = "done"
                      /\ hook_result = {HookResultNew(results)}

\* The first of three tasks failed under fail-fast and the hook returned
\* with its result alone.
C8_Witness ==
    /\ Mode = "seq"
    /\ fail_fast
    /\ outcome = "ok"
    /\ Len(NotSkipped) = 3
    /\ Len(results) = 1
    /\ FatalResult(results[1])
    /\ tpc[NotSkipped[2]] = "idle"
    /\ tpc[NotSkipped[3]] = "idle"

(***************************************************************************)
(* C9.  If every task that exits non-zero has allow_failure set, the       *)
(* HookResult has success = true.                                          *)
(***************************************************************************)
C9_AllowedFailureKeepsSuccess ==
    (outcome = "ok" /\ \A n \in DOMAIN tres :
                            tres[n] = "fail" => Task(n).allow_failure) =>
        \A hr \in hook_result : hr.success

(***************************************************************************)
(* C10.  HookResult.success is true iff every TaskResult of the returned   *)
(* collection succeeded; condition-excluded, skipped and never admitted    *)
(* tasks are absent from the collection and contribute nothing.            *)
(***************************************************************************)
C10_SuccessIsAndOfResults ==
    outcome = "ok" =>
        \A hr \in hook_result :
            /\ hr.success <=> (\A i \in DOMAIN hr.tasks : hr.tasks[i].success)
            /\ \A i \in DOMAIN hr.tasks : hr.tasks[i].success <=> tres[hr.tasks[i].name] = "ok"
            /\ \A n \in DOMAIN tpc :
                  (\/ ~EvaluateCondition(Task(n))
                   \/ SkipForFiles(Task(n))
                   \/ tpc[n] = "idle") => n \notin ResultNames(hr.tasks)

\* A hook returned success with the result of its one executed task, the
\* other task having been excluded by its condition.
C10_Witness ==
    /\ outcome = "ok"
    /\ \E hr \in hook_result :
          /\ hr.success
          /\ Len(hr.tasks) = 1
    /\ \E n \in DOMAIN tpc : ~EvaluateCondition(Task(n))

(***************************************************************************)
(* C11.  In every mode a task with a glob specification and an empty file  *)
(* selection is never executed and has no TaskResult; in dependency-aware  *)
(* mode it is in the completed set by the time the loop reaches a task     *)
(* that depends on it, so that the dependent does not wait for it.         *)
(***************************************************************************)
DepLoopPcs ==
    {"dep_check1", "dep_deps", "dep_sleep", "dep_check3", "dep_skip",
     "dep_acquire"}

C11_SkippedTaskIsNotRunAndComplete ==
    \A n \in Range(executable_tasks) :
        \/ /\ tpc[n] = "idle"
           /\ tres[n] = "none"
           /\ n \notin ResultNames(results)
           /\ \A hr \in hook_result : n \notin ResultNames(hr.tasks)
           /\ (/\ pc \in DepLoopPcs
               /\ Mode = "dep"
               /\ idx <= Len(executable_tasks)
               /\ n \in Range(Current.depends_on)) => n \in completed
        \/ ~SkipForFiles(Task(n))

\* A task runs whose dependency was skipped for an empty file selection and
\* recorded as complete.
C11_Witness ==
    /\ Mode = "dep"
    /\ \E n \in Range(executable_tasks), m \in Range(executable_tasks) :
          /\ SkipForFiles(Task(n))
          /\ n \in completed
          /\ n \in Range(Task(m).depends_on)
          /\ tpc[m] = "running"

(***************************************************************************)
(* C12.  When no task fails (or fail-fast is disabled) and every           *)
(* subprocess can be started, execute_hook returns a HookResult holding    *)
(* exactly one TaskResult for every condition-eligible task that is not    *)
(* skipped for an empty file selection, in all three modes.                *)
(***************************************************************************)
Eligible ==
    {n \in TaskNames(Tasks) :
        EvaluateCondition(Task(n)) /\ ~SkipForFiles(Task(n))}

C12_EveryEligibleTaskHasOneResult ==
    (/\ pc = "done"
     /\ outcome \notin {"err_cycle", "err_spawn"}
     /\ NoSpawnError
     /\ ~fail_fast \/ \A n \in DOMAIN tres : tres[n] # "fail") =>
        /\ outcome = "ok"
        /\ \A hr \in hook_result :
              /\ Len(hr.tasks) = Cardinality(Eligible)
              /\ ResultNames(hr.tasks) = Eligible

(***************************************************************************)
(* C13.  For a task with a glob specification filter_files returns the     *)
(* candidate files, in candidate order, that match at least one include    *)
(* pattern and no exclude pattern, a pattern matching a file when it       *)
(* matches the path as given, the bare file name or the path with its      *)
(* separators normalized; without an include pattern the selection is      *)
(* empty.                                                                  *)
(***************************************************************************)
\* Pattern pat matches file f in one of its three forms.
MatchesSomeForm(pat, f) ==
    \/ PatternMatches(pat, f)
    \/ PatternMatches(pat, FileName(f, host.windows))
    \/ PatternMatches(pat, Replace(f, "\\", "/"))

\* File f matches one of the valid patterns listed with the given `!` mark.
MatchesToken(toks, neg, f) ==
    \E i \in DOMAIN toks :
        /\ toks[i].neg = neg
        /\ PatternNew(toks[i].pat) # {}
        /\ MatchesSomeForm(toks[i].pat, f)

C13_FilterFilesSelectsIncludedNotExcluded ==
    (call.fn = "filter_files" /\ call.done) =>
        call.ret = SelectSeq(executor.staged_files,
                       LAMBDA f : /\ MatchesToken(call.tokens, FALSE, f)
                                  /\ ~MatchesToken(call.tokens, TRUE, f))

\* Of two candidates that both match an include pattern, one matched an
\* exclude pattern and the other was selected.
C13_Witness ==
    /\ call.fn = "filter_files"
    /\ call.done
    /\ Len(executor.staged_files) = 2
    /\ Len(call.ret) = 1
    /\ \A i \in 1..2 : MatchesToken(call.tokens, FALSE, executor.staged_files[i])
    /\ \E i \in 1..2 : MatchesToken(call.tokens, TRUE, executor.staged_files[i])

(***************************************************************************)
(* C14.  A dependency name that names no task of the hook is treated as    *)
(* satisfied: the sort fails for a cycle among the hook's tasks only, the  *)
(* dependency-aware loop never waits at a task whose dependencies all name *)
(* no task of the hook, and a task declaring such a name has its result in *)
(* the HookResult of a run that nothing cut short.                         *)
(***************************************************************************)
UnknownDeps(n) == Range(Task(n).depends_on) \ TaskNames(Tasks)

C14_UnknownDependencyIsSatisfied ==
    /\ outcome = "err_cycle" => HasCycle
    /\ (pc = "dep_sleep" /\ Mode = "dep") => DepsInHook(Current.name) # {}
    /\ (pc = "done" /\ outcome = "ok" /\ ~fail_fast /\ NoSpawnError) =>
          \A n \in Eligible :
              UnknownDeps(n) # {} =>
                  \A hr \in hook_result : n \in ResultNames(hr.tasks)

\* A task whose only dependency names no task of the hook runs before any
\* task has completed.
C14_Witness ==
    /\ Mode = "dep"
    /\ completed = {}
    /\ \E n \in DOMAIN tpc :
          /\ Task(n).depends_on = <<UnknownDep>>
          /\ tpc[n] = "running"

(***************************************************************************)
(* C15.  Whenever parallel is disabled or any task of the hook declares a  *)
(* dependency, the tasks run one at a time in topological order: no two    *)
(* subprocesses are running at the same moment.                            *)
(***************************************************************************)
Dispatched == pc \notin {"start", "filter"} /\ outcome # "err_cycle"

\* As claimed: a declared dependency forces one task at a time.
C15_DependencyOrNoParallelRunsOneAtATime ==
    (/\ Dispatched
     /\ ~parallel \/ \E i \in DOMAIN Tasks : Tasks[i].depends_on # <<>>) =>
        Cardinality(Running) <= 1

\* As the code has it: parallel disabled runs one task at a time, each
\* after the tasks of the hook it depends on that are run at all.
C15_NoParallelRunsOneAtATimeInOrder ==
    (Dispatched /\ ~parallel) =>
        /\ Mode = "seq"
        /\ Cardinality(Running) <= 1
        /\ \A n \in DOMAIN tpc :
              tpc[n] # "idle" =>
                  \A d \in DepsInHook(n) \cap Range(NotSkipped) : tpc[d] = "done"

\* With parallel disabled a task declared before its dependency runs after
\* the dependency has exited.
C15_Witness ==
    /\ Dispatched
    /\ ~parallel
    /\ \E n \in DOMAIN tpc, d \in DOMAIN tpc :
          /\ tpc[n] = "running"
          /\ d \in DepsInHook(n)
          /\ tpc[d] = "done"
          /\ \E i, j \in DOMAIN Tasks :
                i < j /\ Tasks[i].name = n /\ Tasks[j].name = d

(***************************************************************************)
(* C16.  The TaskResults of the HookResult are in the order in which the   *)
(* tasks completed, in every mode: a task that handed over its result      *)
(* while another task's subprocess was still running comes before that     *)
(* task in the collection.                                                 *)
(***************************************************************************)
C16_ResultsInCompletionOrder ==
    outcome = "ok" =>
        \A hr \in hook_result :
            \A p \in finished_before :
                (p[1] \in ResultNames(hr.tasks) /\ p[2] \in ResultNames(hr.tasks)) =>
                    PosIn([i \in DOMAIN hr.tasks |-> hr.tasks[i].name], p[1])
                        < PosIn([i \in DOMAIN hr.tasks |-> hr.tasks[i].name], p[2])

(***************************************************************************)
(* C17.  When the subprocess of an admitted task cannot be started,        *)
(* execute_hook returns an error and no HookResult, in every mode.         *)
(***************************************************************************)
SpawnFailed == outcome = "err_spawn" \/ \E n \in DOMAIN tres : tres[n] = "err"

C17_SpawnFailureAbortsRun ==
    (pc = "done" /\ SpawnFailed) =>
        /\ outcome # "ok"
        /\ hook_result = {}

(***************************************************************************)
(* C18.  A task whose condition evaluates to false is excluded before      *)
(* scheduling: in every mode it is never executed, has no TaskResult, and  *)
(* HookResult.success is what the results of the other tasks make it.      *)
(***************************************************************************)
C18_FalseConditionExcludesTask ==
    \A n \in DOMAIN tpc :
        \/ ~Dispatched
        \/ /\ n \notin Range(executable_tasks)
           /\ tpc[n] = "idle"
           /\ tres[n] = "none"
           /\ n \notin ResultNames(results)
           /\ \A hr \in hook_result :
                 /\ n \notin ResultNames(hr.tasks)
                 /\ hr.success <=>
                       \A m \in DOMAIN tres \ {n} : tres[m] # "fail"
        \/ EvaluateCondition(Task(n))

\* A hook returned success although the task excluded by its condition
\* has a dependent that ran, the other task of the hook.
C18_Witness ==
    /\ outcome = "ok"
    /\ \E n \in DOMAIN tpc, m \in DOMAIN tpc :
          /\ ~EvaluateCondition(Task(n))
          /\ n \in Range(Task(m).depends_on)
          /\ tres[m] = "ok"
          /\ \E hr \in hook_result : hr.success /\ ResultNames(hr.tasks) = {m}

(***************************************************************************)
(* C19.  For every PATH, `exists:PATH` evaluates to true iff PATH exists   *)
(* and `!exists:PATH` evaluates to true iff PATH does not exist, whatever  *)
(* PATH contains.                                                          *)
(***************************************************************************)
Evaluated == call.fn = "evaluate_condition" /\ call.done

C19_ExistsIffPathExists ==
    Evaluated =>
        /\ call.kind = "exists" => (call.ret <=> call.arg \in host.paths)
        /\ call.kind = "notexists" => (call.ret <=> call.arg \notin host.paths)

(***************************************************************************)
(* C20.  `branch == X` evaluates to true iff the current branch equals X   *)
(* trimmed, `branch != X` to the negation of that; without a current       *)
(* branch the comparison is made with the empty string.                    *)
(***************************************************************************)
C20_BranchComparison ==
    Evaluated =>
        LET branch == IF executor.current_branch = {} THEN <<>>
                      ELSE Unwrap(executor.current_branch)
        IN  /\ call.kind = "eq" => (call.ret <=> branch = call.arg)
            /\ call.kind = "ne" => (call.ret <=> branch # call.arg)

\* `branch == m`, written with white space around its words, was true on
\* branch m.
C20_Witness ==
    /\ Evaluated
    /\ call.kind = "eq"
    /\ call.ret
    /\ call.arg = <<"m">>
    /\ Unwrap(Tasks[1].condition)[1] = " "

(***************************************************************************)
(* C21.  `env:NAME` evaluates to true iff the variable NAME is set and     *)
(* `!env:NAME` iff it is not set, whatever the name and the environment.   *)
(***************************************************************************)
\* The variables that are set, whatever their value.
EnvSet == host.env \cup host.env_raw

C21_EnvIffSet ==
    Evaluated =>
        /\ call.kind = "env" => (call.ret <=> call.arg \in EnvSet)
        /\ call.kind = "notenv" => (call.ret <=> call.arg \notin EnvSet)

(***************************************************************************)
(* C22.  A task with no condition is eligible, and a condition of none of  *)
(* the grammar's forms evaluates to true.                                  *)
(***************************************************************************)
C22_NoOrUnknownConditionIsTrue ==
    (Evaluated /\ call.kind \in {"none", "raw"}) => call.ret

\* `xbranch == d` was evaluated on branch m.
C22_Witness ==
    /\ Evaluated
    /\ call.ret
    /\ call.kind = "raw"
    /\ call.arg = <<"x">> \o StrBranch \o <<" ">> \o StrEq \o <<" ", "d">>
    /\ executor.current_branch = {<<"m">>}

BuildCalled == call.fn = "build_command" /\ call.done

\* The file list as the claims describe it.
FileList ==
    Join([i \in DOMAIN call.files |->
             IF \E k \in DOMAIN call.files[i] : call.files[i][k] = " "
             THEN <<"\"">> \o call.files[i] \o <<"\"">>
             ELSE call.files[i]],
         <<" ">>)

HasFilesPiece == \E i \in DOMAIN call.pieces : call.pieces[i].kind = "files"

\* The text to append to a template.
Appended ==
    IF ~HasFilesPiece /\ Tasks[1].glob # {} /\ call.files # <<>>
    THEN <<" ">> \o FileList
    ELSE <<>>

\* The template with the file list in the place of its placeholders.
TemplateWithFiles ==
    Join([i \in DOMAIN call.pieces |->
             IF call.pieces[i].kind = "files" THEN FileList
             ELSE PieceText(call.pieces[i])],
         <<>>) \o Appended

C24_FilesArePlacedOrAppended ==
    BuildCalled =>
        call.ret = WithArgs(WithArgs(TemplateWithFiles, executor.hook_args,
                                     1, <<"$">>, <<>>),
                            executor.hook_args, 1, <<"{">>, <<"}">>)

\* Two files, one of them with a space, were put in the place of a
\* placeholder, without invocation arguments.
C24_Witness ==
    /\ BuildCalled
    /\ HasFilesPiece
    /\ call.files = << <<"b", " ", "c">>, <<"a", ".", "r">> >>
    /\ executor.hook_args = <<>>
    /\ Contains(call.ret, <<"\"", "b", " ", "c", "\"", " ", "a", ".", "r">>)

(***************************************************************************)
(* C25.  build_command puts the i-th invocation argument in the place of   *)
(* every `$i` and `{i}` of the template, for every number of arguments and *)
(* whatever the arguments and the file list contain.                       *)
(***************************************************************************)
\* What a piece of the template stands for.
PieceMeaning(piece) ==
    IF piece.kind = "files" THEN FileList
    ELSE IF /\ piece.kind \in {"dollar", "brace"}
            /\ piece.index <= Len(executor.hook_args)
    THEN executor.hook_args[piece.index]
    ELSE PieceText(piece)

C25_ArgumentsArePlacedExactly ==
    BuildCalled =>
        call.ret = Join([i \in DOMAIN call.pieces |-> PieceMeaning(call.pieces[i])],
                        <<>>) \o Appended

(***************************************************************************)
(* C26.  For every collection of TaskResults and every wall time the       *)
(* statistics are derived and have total_tasks = the number of results,    *)
(* successful_tasks + failed_tasks = total_tasks, cpu_time_ms = the sum of *)
(* the durations, and parallel_savings_ms = cpu_time_ms - wall_time_ms     *)
(* when that is positive and 0 otherwise.                                  *)
(***************************************************************************)
StatsCalled == call.fn = "from_tasks" /\ call.done

DurationSum == MathSum([i \in DOMAIN call.tasks |-> call.tasks[i].duration_ms])

InForce(override, global) ==
    IF override = {TRUE} THEN TRUE
    ELSE IF override = {FALSE} THEN FALSE
    ELSE global

C27_HookOverridesWin ==
    pc # "start" =>
        /\ parallel = InForce(hook.parallel, settings.parallel)
        /\ fail_fast = InForce(hook.fail_fast, settings.fail_fast)
        /\ (outcome # "err_cycle" /\ pc # "filter") =>
              (Mode = "seq" <=> ~InForce(hook.parallel, settings.parallel))

\* A hook that disables the parallel execution the global settings enable,
\* and enables the fail-fast they disable, stopped at its first failure.
C27_Witness ==
    /\ pc = "done"
    /\ hook.parallel = {FALSE}
    /\ settings.parallel
    /\ hook.fail_fast = {TRUE}
    /\ ~settings.fail_fast
    /\ Mode = "seq"
    /\ Len(results) = 1
    /\ ~results[1].success

(***************************************************************************)
(* C28.  Under fail-fast, in sequential and in dependency-aware mode, a    *)
(* task that depends on a task that failed without allow_failure is never  *)
(* executed and has no TaskResult, whatever the interleaving.              *)
(***************************************************************************)
\* The tasks n depends on that failed without allow_failure.
FailedDeps(n) ==
    {d \in DepsInHook(n) : tres[d] = "fail" /\ ~Task(d).allow_failure}

C28_DependentOfFailedTaskNeverRuns ==
    (fail_fast /\ Mode \in {"seq", "dep"}) =>
        \A n \in DOMAIN tpc :
            \/ /\ tpc[n] = "idle"
               /\ n \notin ResultNames(results)
               /\ \A hr \in hook_result : n \notin ResultNames(hr.tasks)
            \/ FailedDeps(n) = {}

\* In dependency-aware mode the failed dependency is recorded as complete
\* and its dependent, the next task of the loop, has not been started.
C28_Witness ==
    /\ fail_fast
    /\ Mode = "dep"
    /\ pc = "done"
    /\ \E n \in DOMAIN tpc :
          /\ FailedDeps(n) # {}
          /\ FailedDeps(n) \subseteq completed
          /\ n \in Range(executable_tasks)
          /\ ~SkipForFiles(Task(n))
          /\ tpc[n] = "idle"

(***************************************************************************)
(* C29.  A failure of a task with allow_failure never triggers fail-fast:  *)
(* in every mode, as long as no other task failed and every subprocess     *)
(* could be started, the fail flag is not set, the loop does not stop, and *)
(* by the end of the run every eligible task with a file selection has     *)
(* been executed.                                                          *)
(***************************************************************************)
\* No task failed but tasks with allow_failure.
OnlyAllowedFailures ==
    \A n \in DOMAIN tres : tres[n] = "fail" => Task(n).allow_failure

C29_AllowedFailureNeverStopsTheRun ==
    (Dispatched /\ OnlyAllowedFailures /\ ~SpawnFailed) =>
        /\ ~failed
        /\ pc = "done" =>
              \A n \in Range(executable_tasks) :
                  tpc[n] # "idle" \/ SkipForFiles(Task(n))
        /\ (pc = "done" /\ Mode = "seq") =>
              \A n \in Range(executable_tasks) :
                  n \in ResultNames(results) \/ SkipForFiles(Task(n))

\* Under fail-fast the first task failed with allow_failure and the second
\* was executed after it.
C29_Witness ==
    /\ fail_fast
    /\ pc = "done"
    /\ OnlyAllowedFailures
    /\ \E n \in DOMAIN tres, m \in DOMAIN tres :
          /\ tres[n] = "fail"
          /\ n \in DepsInHook(m)
          /\ tres[m] = "ok"

(***************************************************************************)
(* C30.  Neither the scheduling loop nor a task holds a lock on the        *)
(* completed set or on the result collection while it waits for a pool     *)
(* slot, sleeps between two polls, or waits for its subprocess to exit.    *)
(***************************************************************************)
\* Where the loop waits for a pool slot, sleeps, or waits for a task.
LoopSuspended ==
    pc \in {"dep_sleep", "dep_acquire", "dep_wait", "par_acquire", "par_join",
            "seq_await"}

C30_NoLockHeldWhileSuspended ==
    \A g \in guards :
        /\ LoopSuspended => g[1] # "loop"
        /\ \A n \in DOMAIN tpc : tpc[n] = "running" => g[1] # n

\* While the loop sleeps at a task, the dependency it waits for has taken
\* the lock of the completed set and recorded itself.
C30_Witness ==
    /\ pc = "dep_sleep"
    /\ \E d \in DepsInHook(Current.name) : d \in completed
    /\ guards = {}

(***************************************************************************)
(* C31.  Every task is started at most once in a run and yields at most    *)
(* one TaskResult: the names of the results, collected and returned, are   *)
(* pairwise distinct, and each names a task of the hook whose condition    *)
(* holds.                                                                  *)
(***************************************************************************)
DistinctNames(rs) ==
    \A i, j \in DOMAIN rs : i # j => rs[i].name # rs[j].name

C31_AtMostOneStartAndResult ==
    [](/\ \A n \in DOMAIN starts : starts[n] <= 1
       /\ DistinctNames(results)
       /\ \A hr \in hook_result :
             /\ DistinctNames(hr.tasks)
             /\ \A i \in DOMAIN hr.tasks :
                   /\ hr.tasks[i].name \in TaskNames(Tasks)
                   /\ EvaluateCondition(Task(hr.tasks[i].name)))

\* A run of two tasks in a concurrent mode returned both results.
C31_Witness ==
    /\ outcome = "ok"
    /\ Concurrent
    /\ \A n \in DOMAIN starts : starts[n] = 1
    /\ \E hr \in hook_result : Len(hr.tasks) = 2

(***************************************************************************)
(* C32.  validate returns Ok only for a configuration in which every hook  *)
(* has a task and, within each hook, the task names are non-empty and      *)
(* pairwise distinct, every run command is non-empty and every depends_on  *)
(* name names a task of the hook; and it reports every violation.          *)
(***************************************************************************)
Validated == call.fn = "validate" /\ call.done

\* Whether the hook is as validate requires.
WellFormedHook(h) ==
    /\ h.tasks # <<>>
    /\ \A i \in DOMAIN h.tasks :
          /\ h.tasks[i].name # <<>>
          /\ h.tasks[i].run # <<>>
          /\ \A j \in DOMAIN h.tasks : i # j => h.tasks[i].name # h.tasks[j].name
          /\ \A k \in DOMAIN h.tasks[i].depends_on :
                \E j \in DOMAIN h.tasks : h.tasks[j].name = h.tasks[i].depends_on[k]

\* Whether an error of the kind is reported for the task of the hook.
Reported(kind, hook_name, i) ==
    \E e \in call.ret.errors : e.kind = kind /\ e.hook = hook_name /\ e.task = i

SequentialAbort == Mode = "seq" /\ outcome = "err_spawn"

C33_WithoutFailFastEveryTaskStartsOnce ==
    []((Dispatched /\ ~fail_fast) =>
          /\ \A n \in DOMAIN starts : starts[n] <= 1
          /\ (pc = "done" /\ ~SequentialAbort) =>
                \A n \in Range(executable_tasks) :
                    SkipForFiles(Task(n)) \/ starts[n] = 1
          /\ Mode = "dep" =>
                \A n \in Range(executable_tasks) :
                    starts[n] = 1 => FailedDeps(n) \subseteq completed)

\* Without fail-fast, in dependency-aware mode, a task was started after
\* the task it depends on had failed, and the run is over.
C33_Witness ==
    /\ ~fail_fast
    /\ Mode = "dep"
    /\ pc = "done"
    /\ \E n \in Range(executable_tasks) :
          /\ FailedDeps(n) # {}
          /\ starts[n] = 1

(***************************************************************************)
(* C34.  In dependency-aware mode, in every reachable state, a task whose  *)
(* name is in the completed set and whose subprocess ran to an exit status *)
(* has its TaskResult in the shared result collection, and the fail flag   *)
(* is set if it failed without allow_failure; the flag is also set as soon *)
(* as such a task's result is in the collection.                           *)
(***************************************************************************)
Exited(n) == tres[n] \in {"ok", "fail"}

FailedForGood(n) == tres[n] = "fail" /\ ~Task(n).allow_failure

C34_CompletedTaskHasResultAndFlag ==
    [](Mode = "dep" =>
          /\ \A n \in completed :
                Exited(n) =>
                   /\ n \in ResultNames(results)
                   /\ FailedForGood(n) => failed
          /\ \A n \in ResultNames(results) : FailedForGood(n) => failed)

\* A task that failed without allow_failure is recorded complete while the
\* loop has not returned and another task's subprocess is running.
C34_Witness ==
    /\ Mode = "dep"
    /\ pc # "done"
    /\ \E n \in completed, m \in DOMAIN tpc :
          /\ FailedForGood(n)
          /\ n \in ResultNames(results)
          /\ failed
          /\ tpc[m] = "running"

(***************************************************************************)
(* C35.  If every started subprocess exits, execute_hook returns, in every *)
(* mode and for every hook: the wait for a task's dependencies, the wait   *)
(* for a pool slot and the final wait all end.                             *)
(***************************************************************************)
C35_ExecuteHookReturns == <>(pc = "done")

\* With a pool of one slot, in dependency-aware mode, both tasks were run,
\* one after the other it depends on, and execute_hook has returned.
C35_Witness ==
    /\ pc = "done"
    /\ Mode = "dep"
    /\ PoolSize = 1
    /\ \E n \in DOMAIN tpc : DepsInHook(n) # {}
    /\ \A n \in DOMAIN tpc : starts[n] = 1

(***************************************************************************)
(* C36.  The conditions of all tasks of the hook are evaluated in one      *)
(* step, after the sort and while no task has been started; once a task    *)
(* has been started every condition has been evaluated, and no condition   *)
(* is evaluated in any later step.                                         *)
(***************************************************************************)
NoneStarted == \A n \in DOMAIN tpc : tpc[n] = "idle" /\ starts[n] = 0

C36_ConditionsEvaluatedOnceBeforeAnyStart ==
    /\ [](/\ pc = "start" => evaluated = {}
          /\ NoneStarted \/ evaluated = TaskNames(Tasks))
    /\ [][evaluated' # evaluated =>
              /\ evaluated = {}
              /\ pc = "filter"
              /\ Range(sorted_tasks) = TaskNames(Tasks)
              /\ evaluated' = TaskNames(Tasks)
              /\ NoneStarted /\ NoneStarted']_vars

\* A task whose condition is false was left out and another task has been
\* started.
C36_Witness ==
    /\ evaluated = TaskNames(Tasks)
    /\ \E n \in DOMAIN tpc : ~EvaluateCondition(Task(n))
    /\ \E n \in DOMAIN tpc : tpc[n] = "running"

(***************************************************************************)
(* C37.  When no task of the hook can be dispatched (it has no tasks, or   *)
(* each is condition-excluded or skipped for an empty file selection) and  *)
(* the sort succeeds, execute_hook returns a HookResult without results,   *)
(* with success = true and total_tasks = 0, in every mode.                 *)
(***************************************************************************)
NothingToDispatch ==
    \A i \in DOMAIN Tasks :
        ~EvaluateCondition(Tasks[i]) \/ SkipForFiles(Tasks[i])

C37_NothingDispatchedIsEmptySuccess ==
    []((pc = "done" /\ outcome # "err_cycle" /\ NothingToDispatch) =>
          /\ outcome = "ok"
          /\ hook_result = {[tasks |-> <<>>, success |-> TRUE, total_tasks |-> 0]}
          /\ \A n \in DOMAIN starts : starts[n] = 0)

\* In dependency-aware mode every task was skipped for an empty file
\* selection, and execute_hook has returned.
C37_Witness ==
    /\ pc = "done"
    /\ Mode = "dep"
    /\ Tasks # <<>>
    /\ \A i \in DOMAIN Tasks : SkipForFiles(Tasks[i])
    /\ hook_result # {}

(***************************************************************************)
(* C38.  In a sequence of install_hook and uninstall_hook calls that       *)
(* starts with a hook file F that fasthooks did not create, F's content is *)
(* in every state the content of the hook file or of the backup file, and  *)
(* after every uninstall_hook the hook file has F's content and there is   *)
(* no backup file.                                                         *)
(***************************************************************************)
HooksDir == host.hooks_dir

LastCall == IF call.calls = <<>> THEN "none" ELSE call.calls[Len(call.calls)]

\* The sequence started with a hook file that install_hook did not write,
\* and no backup file.
StartedWithForeignHook ==
    /\ call.fn = "installer"
    /\ call.original[HookPath] # {}
    /\ call.original[HookPath] # {HookTemplateGenerate}
    /\ call.original[BackupPath] = {}

C38_ForeignHookIsNeverLost ==
    StartedWithForeignHook =>
        /\ call.original[HookPath] \in {HooksDir[HookPath], HooksDir[BackupPath]}
        /\ LastCall = "uninstall_hook" =>
              /\ HooksDir[HookPath] = call.original[HookPath]
              /\ HooksDir[BackupPath] = {}

(***************************************************************************)
(* C39.  uninstall_hook leaves the hooks directory as it was when the hook *)
(* file does not exist or does not contain the fasthooks marker, and the   *)
(* call succeeds.                                                          *)
(***************************************************************************)
HasMarker(file) == file # {} /\ Contains(Unwrap(file), StrFasthooks)

C39_UninstallLeavesForeignHookAlone ==
    (/\ call.fn = "installer"
     /\ LastCall = "uninstall_hook"
     /\ ~HasMarker(call.before[HookPath])) =>
        /\ HooksDir = call.before
        /\ call.ok


=============================================================================
